---- MODULE Spec2Model ----
(***************************************************************************)
(* FlowSync execution backbone: orchestrator, job publisher, persistent    *)
(* job queue, job consumer (worker pool) and result handler, for one       *)
(* execution of one workflow definition.                                   *)
(*                                                                         *)
(* Granularity: JavaScript runs one continuation at a time, so an action   *)
(* is one awaited database operation together with the synchronous code    *)
(* that follows it up to the next await.  Two awaited operations of the    *)
(* same function are two actions, and other tasks may run in between.      *)
(***************************************************************************)
EXTENDS Integers, Sequences, FiniteSets, TLC

\* ------------------------------------------------------------------ bounds
MaxTasks == 2          \* async dequeue/processJob tasks modelled at once
MaxRetriesBound == 2   \* largest retry.maxRetries given to node "A"
MaxSteps == 6          \* cap on StepExecution rows created in one run
PoolJobs == 6          \* jobs published in the pool specification
BpMaxDepth == 1001     \* largest queue depth in the backpressure specification
MaxMinute == 2         \* last calendar minute of the scheduler's clock
MaxTicks == 2          \* tick() calls that can be in progress at once
MaxNodes == 3          \* nodes of a definition given to validateDAG
MaxEdges == 3          \* edges of a definition given to validateDAG
MaxNow == 3            \* last instant of the idempotency store's clock
MaxTtl == 2            \* longest ttlMs given to checkAndSet
CronHorizon == 240     \* minutes of the calendar window of the cron parser
CronChunk == 40        \* iterations of getNextRunTime's loop taken in one step
PubMaxSteps == 4       \* StepExecution rows created in the publisher specification
PubMaxJumps == 2       \* moves of the clock in the publisher specification
WfMaxCalls == 2        \* calls of executeWorkflow in the workflow specification
WfMaxResults == 2      \* calls of handleResult per execution in the workflow specification
ConsMaxJobs == 2       \* jobs enqueued in the consumer specification
ConsMaxCalls == 3      \* calls of startConsumer and stopConsumer in the consumer specification
QMaxJobs == 3          \* job ids in the queue specification
QMaxEnqueues == 4      \* calls of JobQueue.enqueue in the queue specification
QMaxDequeuers == 2     \* concurrent calls of JobQueue.dequeue in the queue specification
MaxEdits == 1          \* changes of a trigger row or its workflow in the scheduler specification

\* ------------------------------------------------------- program constants
MAX_CONCURRENCY == 5
\* BackpressureController DEFAULT_CONFIG
maxQueueDepth == 1000
highWaterMark == 800
lowWaterMark == 200

VARIABLES
    definition,    \* Workflow.definitionJson of the executed workflow
    execStatus,    \* Execution.status ("none" before the row is created)
    steps,         \* StepExecution table: sequence indexed by row id
    jobQueue,      \* JobQueue table, in createdAt order
    idempotency,   \* IdempotencyStore.store: nodeId -> stepId (0 = no entry)
    dlq,           \* DeadLetterQueue.items
    activeJobs,    \* job-consumer activeJobs
    timers,        \* retry jobs waiting in setTimeout
    listener,      \* a once-listener for done:<executionId> is registered
    proc,          \* the orchestrator call and the consumer's async tasks
    cancelPc,      \* position of the cancel request handler
    handlerRuns,   \* history: handler.execute calls per node
    handlerFails,  \* history: retryable failures returned per node
    doneEmitted,   \* history: executionEvents.emit("done:<id>") calls
    pool,          \* the job consumer's worker pool seen alone
    backpressure,  \* BackpressureController and the queue depth it reads
    scheduler,     \* Scheduler, its triggers and the clock
    dag,           \* a definition given to validateDAG and the result
    store,         \* IdempotencyStore with its entries' ages
    cron,          \* a cron expression, a time and getNextRunTime's answer
    publisher,     \* publishJob with the backpressure test and the key store
    workflow,      \* a Workflow row, its executions and the calls made on it
    consumer,      \* the job consumer's life cycle and the heartbeat monitor
    jobq           \* the JobQueue class: its table and its counters

\* the execution engine's variables, and those of the components that are
\* specified on their own
engineVars == <<definition, execStatus, steps, jobQueue, idempotency, dlq,
                activeJobs, timers, listener, proc, cancelPc,
                handlerRuns, handlerFails, doneEmitted>>
serviceVars == <<publisher, workflow, consumer, jobq>>
auxVars == <<pool, backpressure, scheduler, dag, store, cron, serviceVars>>
vars == <<engineVars, auxVars>>

\* ------------------------------------------------------------ definitions
Edge(s, t, b) == [source |-> s, target |-> t, conditionBranch |-> b]

\* A definition: nodes and edges in array order; per node its type,
\* config.actionType and config.retry.maxRetries.
\* start -> A -> end  (end-to-end scenarios 1, 4 and 5; A is an http action)
DefLinear(n) ==
    [nodes |-> <<"start", "A", "end">>,
     type  |-> [x \in {"start", "A", "end"} |->
                  IF x = "A" THEN "action" ELSE x],
     actionType |-> [x \in {"start", "A", "end"} |->
                  IF x = "A" THEN "http" ELSE "default"],
     edges |-> <<Edge("start", "A", "none"), Edge("A", "end", "none")>>,
     maxRetries |-> [x \in {"start", "A", "end"} |-> IF x = "A" THEN n ELSE 0]]

\* start -> A -> end, start -> B -> end  (two parallel branches; A is an
\* http action, B a default action)
DefDiamond(n) ==
    [nodes |-> <<"start", "A", "B", "end">>,
     type  |-> [x \in {"start", "A", "B", "end"} |->
                  IF x \in {"A", "B"} THEN "action" ELSE x],
     actionType |-> [x \in {"start", "A", "B", "end"} |->
                  IF x = "A" THEN "http" ELSE "default"],
     edges |-> <<Edge("start", "A", "none"), Edge("start", "B", "none"),
                 Edge("A", "end", "none"), Edge("B", "end", "none")>>,
     maxRetries |-> [x \in {"start", "A", "B", "end"} |->
                  IF x = "A" THEN n ELSE 0]]

\* start -> C, C -true-> T -> end, C -false-> F -> end  (scenario 2; T and F
\* are default actions; C's config.expression evaluates to r)
DefCondition(r) ==
    [nodes |-> <<"start", "C", "T", "F", "end">>,
     type  |-> [x \in {"start", "C", "T", "F", "end"} |->
                  IF x = "C" THEN "condition"
                  ELSE IF x \in {"T", "F"} THEN "action" ELSE x],
     actionType |-> [x \in {"start", "C", "T", "F", "end"} |-> "default"],
     edges |-> <<Edge("start", "C", "none"), Edge("C", "T", "true"),
                 Edge("C", "F", "false"), Edge("T", "end", "none"),
                 Edge("F", "end", "none")>>,
     maxRetries |-> [x \in {"start", "C", "T", "F", "end"} |-> 0],
     expression |-> r]

\* the workflows executed: every retry setting on the linear one
Definitions ==
    {DefLinear(n) : n \in 0..MaxRetriesBound} \cup {DefDiamond(0), DefCondition(TRUE), DefCondition(FALSE)}

AllNodes == {"start", "A", "B", "C", "T", "F", "end"}

Range(s) == {s[i] : i \in 1..Len(s)}
Nodes == Range(definition.nodes)
Edges == Range(definition.edges)

\* job-publisher.ts getMaxRetries
getMaxRetries(node) == definition.maxRetries[node]

\* --------------------------------------------------------------- processes
Orch == 0
Tasks == 1..MaxTasks
Procs == {Orch} \cup Tasks

NoJob == [id |-> 0, nodeId |-> "none", attempt |-> 0, maxRetries |-> 0]
NoRes == [status |-> "none", retryable |-> FALSE, result |-> FALSE]

IdleState ==
    [pc |-> "idle", sel |-> 0, job |-> NoJob, res |-> NoRes,
     entry |-> "none", skip |-> <<>>, ready |-> <<>>, step |-> 0,
     seen |-> "none"]

SelectState == [IdleState EXCEPT !.pc = "select"]

\* ------------------------------------------------------------- step table
LiveRows == {i \in 1..Len(steps) : steps[i].status # "deleted"}
RowsOf(node) == {i \in LiveRows : steps[i].nodeId = node}
NodesIn(sts) == {steps[i].nodeId : i \in {j \in LiveRows : steps[j].status \in sts}}

\* prisma.stepExecution.updateMany({where: {status in from}, data: {status: to}})
updateMany(tbl, from, to) ==
    [i \in 1..Len(tbl) |->
        IF tbl[i].status \in from THEN [tbl[i] EXCEPT !.status = to] ELSE tbl[i]]

\* -------------------------------------------------------------- job queue
QueueIndex(q, id) == {i \in 1..Len(q) : q[i].id = id}
PendingIdx(q) == {i \in 1..Len(q) : q[i].status = "pending"}
Min(S) == CHOOSE x \in S : \A y \in S : x <= y

\* JobQueue.enqueue: the insert fails on an existing primary key and the
\* catch block swallows the error
enqueue(q, job) ==
    IF QueueIndex(q, job.id) = {}
    THEN Append(q, [id |-> job.id, status |-> "pending", attempts |-> 0,
                    payload |-> job])
    ELSE q

\* JobQueue.markDone / JobQueue.markFailed
markQueue(q, id, st) ==
    [i \in 1..Len(q) |-> IF q[i].id = id THEN [q[i] EXCEPT !.status = st] ELSE q[i]]

\* ---------------------------------------------------------------- consumer
IdleTasks(pr) == {t \in Tasks : pr[t].pc = "idle"}
CanDrain(pr, aj) == aj < MAX_CONCURRENCY /\ IdleTasks(pr) # {}

\* drainQueue: launches one async dequeue when below the concurrency limit
drainProc(pr, aj) ==
    IF CanDrain(pr, aj) THEN [pr EXCEPT ![Min(IdleTasks(pr))] = SelectState] ELSE pr
drainJobs(pr, aj) == IF CanDrain(pr, aj) THEN aj + 1 ELSE aj

\* end of the async task of drainQueue: finally { activeJobs--; drainQueue() }
finishProc(pr, t, aj) == drainProc([pr EXCEPT ![t] = IdleState], aj - 1)
finishJobs(pr, t, aj) == drainJobs([pr EXCEPT ![t] = IdleState], aj - 1)

\* the engine before any execution is started
EngineStart ==
    /\ execStatus = "none"
    /\ steps = <<>>
    /\ jobQueue = <<>>
    /\ idempotency = [n \in AllNodes |-> 0]
    /\ dlq = <<>>
    /\ activeJobs = 0
    /\ timers = <<>>
    /\ listener = FALSE
    /\ proc = [p \in Procs |-> IdleState]
    /\ cancelPc = "idle"
    /\ handlerRuns = [n \in AllNodes |-> 0]
    /\ handlerFails = [n \in AllNodes |-> 0]
    /\ doneEmitted = 0

\* value of a component's variable in a specification that leaves it out
Off == "off"

ServicesOff == publisher = Off /\ workflow = Off /\ consumer = Off /\ jobq = Off

Init ==
    /\ definition \in Definitions
    /\ EngineStart
    /\ pool = Off
    /\ backpressure = Off
    /\ scheduler = Off
    /\ dag = Off
    /\ store = Off
    /\ cron = Off
    /\ ServicesOff


\* ---------------------------------------------------------------- handlers
\* handler.execute(job): start, end, fork and join always complete; an http
\* action completes or fails without a retryable flag (retryable !== false);
\* the default and email actions are simulations that complete; a condition
\* completes with the boolean its expression evaluates to, the same at every
\* execution of the job
Outcomes(node) ==
    IF definition.type[node] = "action" /\ definition.actionType[node] = "http"
    THEN {[status |-> "completed", retryable |-> FALSE, result |-> FALSE],
          [status |-> "failed", retryable |-> TRUE, result |-> FALSE]}
    ELSE IF definition.type[node] = "condition"
    THEN {[status |-> "completed", retryable |-> FALSE,
           result |-> definition.expression]}
    ELSE {[status |-> "completed", retryable |-> FALSE, result |-> FALSE]}

\* (a variant of the retry test that never retries)
shouldRetryNever(job, res) == FALSE
\* processJob's retry test
shouldRetry(job, res) ==
    res.status = "failed" /\ res.retryable /\ job.attempt < job.maxRetries

\* processJob's dead-letter test
shouldDeadLetter(job, res) == res.status = "failed" /\ job.maxRetries > 0

\* ---------------------------------------------------------- result handler
Targets(es) == [i \in 1..Len(es) |-> es[i].target]
OutgoingEdges(node) == SelectSeq(definition.edges, LAMBDA e : e.source = node)
IncomingEdges(node) == SelectSeq(definition.edges, LAMBDA e : e.target = node)

filterActiveEdges(outgoingEdges, nodeType, conditionResult) ==
    IF nodeType # "condition" THEN outgoingEdges
    ELSE IF SelectSeq(outgoingEdges, LAMBDA e : e.conditionBranch # "none") # <<>>
    THEN LET branch == IF conditionResult THEN "true" ELSE "false"
         IN SelectSeq(outgoingEdges,
                LAMBDA e : e.conditionBranch = branch \/ e.conditionBranch = "none")
    ELSE outgoingEdges

skippedBranchTargets(node, nodeType, conditionResult) ==
    LET out == OutgoingEdges(node)
        activeTargetIds == Range(Targets(filterActiveEdges(out, nodeType, conditionResult)))
    IN Targets(SelectSeq(out, LAMBDA e : e.target \notin activeTargetIds))

\* skipBranch: the nodes for which a skipped row is created, in creation order
RECURSIVE skipBranch(_, _, _)
skipBranch(nodeIds, completedNodeIds, pendingOrRunningNodeIds) ==
    IF nodeIds = <<>> THEN <<>>
    ELSE LET n == Head(nodeIds)
             here == IF \/ n \in completedNodeIds \cup pendingOrRunningNodeIds
                        \/ n \notin Nodes
                        \/ definition.type[n] = "join"
                     THEN <<>>
                     ELSE <<n>> \o skipBranch(Targets(OutgoingEdges(n)),
                                      completedNodeIds, pendingOrRunningNodeIds)
         IN here \o skipBranch(Tail(nodeIds), completedNodeIds, pendingOrRunningNodeIds)

\* handleResult's ready rule, over the re-queried steps
readyNodes ==
    LET updatedCompleted == NodesIn({"completed"})
        updatedSkipped == NodesIn({"skipped"})
        updatedPendingOrRunning == NodesIn({"pending", "running"})
    IN SelectSeq(definition.nodes,
         LAMBDA node :
            /\ node \notin updatedCompleted
            /\ node \notin updatedSkipped
            /\ node \notin updatedPendingOrRunning
            /\ IncomingEdges(node) # <<>>
            /\ \A e \in Range(IncomingEdges(node)) :
                  e.source \in updatedCompleted \cup updatedSkipped)

\* executionEvents.emit("done:<id>", ...) with the once-listener of
\* waitForExecution: the listener resolves the orchestrator call and is removed
emitProc(pr, status) ==
    IF listener
    THEN [pr EXCEPT ![Orch] = [IdleState EXCEPT !.pc = "resolved",
                                                !.res = [NoRes EXCEPT !.status = status]]]
    ELSE pr


\* =================================================================== actions

\* ---- orchestrator: executeWorkflow ----------------------------------------
\* creates the execution row and finds the nodes with no incoming edge
ExecCreate ==
    /\ proc[Orch].pc = "idle"
    /\ execStatus = "none"
    /\ LET initialNodes ==
              SelectSeq(definition.nodes, LAMBDA n : IncomingEdges(n) = <<>>)
       IN IF initialNodes = <<>>
          THEN /\ execStatus' = "completed"
               /\ proc' = [proc EXCEPT ![Orch].pc = "resolved",
                                       ![Orch].res.status = "completed"]
          ELSE /\ execStatus' = "running"
               /\ proc' = [proc EXCEPT ![Orch].pc = "pubCreate",
                                       ![Orch].ready = initialNodes]
    /\ UNCHANGED <<definition, steps, jobQueue, idempotency, dlq, activeJobs,
                   timers, listener, cancelPc, handlerRuns, handlerFails,
                   doneEmitted>>
    /\ UNCHANGED auxVars

\* waitForExecution's 5-minute timer: removeAllListeners and resolve failed
Timeout ==
    /\ proc[Orch].pc = "waiting"
    /\ listener' = FALSE
    /\ proc' = [proc EXCEPT ![Orch].pc = "resolved", ![Orch].res.status = "failed"]
    /\ UNCHANGED <<definition, execStatus, steps, jobQueue, idempotency, dlq,
                   activeJobs, timers, cancelPc, handlerRuns, handlerFails,
                   doneEmitted>>
    /\ UNCHANGED auxVars

\* ---- publishJob (called by the orchestrator and by handleResult) ----------
\* what follows the last publishJob of the caller's loop
afterPublishProc(pr, p, aj) ==
    IF Len(pr[p].ready) > 1
    THEN [pr EXCEPT ![p].pc = "pubCreate", ![p].ready = Tail(@), ![p].step = 0]
    ELSE IF p = Orch
    THEN [pr EXCEPT ![p].pc = "waiting", ![p].ready = <<>>, ![p].step = 0]
    ELSE finishProc(pr, p, aj)
afterPublishJobs(pr, p, aj) ==
    IF Len(pr[p].ready) > 1 \/ p = Orch THEN aj ELSE finishJobs(pr, p, aj)
\* (a variant that never registers the listener)
afterPublishListenerNever(pr, p) == listener
\* waitForExecution: executionEvents.once is called in the turn in which the
\* orchestrator's last publishJob returns
afterPublishListener(pr, p) ==
    IF Len(pr[p].ready) <= 1 /\ p = Orch THEN TRUE ELSE listener

\* prisma.stepExecution.create (pending), then idempotencyStore.checkAndSet
PubCreate(p) ==
    /\ proc[p].pc = "pubCreate"
    /\ Len(steps) < MaxSteps
    /\ LET node == Head(proc[p].ready)
           id == Len(steps) + 1
       IN /\ steps' = Append(steps, [nodeId |-> node, status |-> "pending",
                                     attempts |-> 1])
          /\ IF idempotency[node] # 0
             THEN /\ proc' = [proc EXCEPT ![p].pc = "pubDelete", ![p].step = id]
                  /\ UNCHANGED idempotency
             ELSE /\ idempotency' = [idempotency EXCEPT ![node] = id]
                  /\ proc' = [proc EXCEPT ![p].pc = "pubEnqueue", ![p].step = id]
    /\ UNCHANGED <<definition, execStatus, jobQueue, dlq, activeJobs, timers,
                   listener, cancelPc, handlerRuns, handlerFails, doneEmitted>>
    /\ UNCHANGED auxVars

\* duplicate: prisma.stepExecution.delete of the row just created
PubDelete(p) ==
    /\ proc[p].pc = "pubDelete"
    /\ steps' = [steps EXCEPT ![proc[p].step].status = "deleted"]
    /\ proc' = afterPublishProc(proc, p, activeJobs)
    /\ activeJobs' = afterPublishJobs(proc, p, activeJobs)
    /\ listener' = afterPublishListener(proc, p)
    /\ UNCHANGED <<definition, execStatus, jobQueue, idempotency, dlq, timers,
                   cancelPc, handlerRuns, handlerFails, doneEmitted>>
    /\ UNCHANGED auxVars

\* jobQueue.enqueue(job): insert the row, emit "job" (the consumer's listener
\* calls drainQueue)
PubEnqueue(p) ==
    /\ proc[p].pc = "pubEnqueue"
    /\ LET node == Head(proc[p].ready)
           job == [id |-> proc[p].step, nodeId |-> node, attempt |-> 1,
                   maxRetries |-> getMaxRetries(node)]
           pr1 == drainProc(proc, activeJobs)
           aj1 == drainJobs(proc, activeJobs)
       IN /\ jobQueue' = enqueue(jobQueue, job)
          /\ proc' = afterPublishProc(pr1, p, aj1)
          /\ activeJobs' = afterPublishJobs(pr1, p, aj1)
          /\ listener' = afterPublishListener(proc, p)
    /\ UNCHANGED <<definition, execStatus, steps, idempotency, dlq, timers,
                   cancelPc, handlerRuns, handlerFails, doneEmitted>>
    /\ UNCHANGED auxVars

\* ---- job consumer ---------------------------------------------------------
\* the poll timer: if (!isShuttingDown) drainQueue()
Poll ==
    /\ CanDrain(proc, activeJobs)
    /\ proc' = drainProc(proc, activeJobs)
    /\ activeJobs' = drainJobs(proc, activeJobs)
    /\ UNCHANGED <<definition, execStatus, steps, jobQueue, idempotency, dlq,
                   timers, listener, cancelPc, handlerRuns, handlerFails,
                   doneEmitted>>
    /\ UNCHANGED auxVars

\* JobQueue.dequeue, first statement: SELECT the oldest pending row.  The
\* statement runs in its own transaction, so the row lock ends with it.
\* (seen is history: the status the job's step row had when the dequeue began)
DequeueSelect(t) ==
    /\ proc[t].pc = "select"
    /\ IF PendingIdx(jobQueue) = {}
       THEN /\ proc' = [proc EXCEPT ![t] = IdleState]
            /\ activeJobs' = activeJobs - 1
       ELSE /\ proc' = [proc EXCEPT ![t].pc = "update",
                            ![t].sel = jobQueue[Min(PendingIdx(jobQueue))].id,
                            ![t].seen = steps[jobQueue[Min(PendingIdx(jobQueue))].id].status]
            /\ UNCHANGED activeJobs
    /\ UNCHANGED <<definition, execStatus, steps, jobQueue, idempotency, dlq,
                   timers, listener, cancelPc, handlerRuns, handlerFails,
                   doneEmitted>>
    /\ UNCHANGED auxVars

\* JobQueue.dequeue, second statement: UPDATE ... WHERE id = <selected id>
\* and return the row's payload
DequeueUpdate(t) ==
    /\ proc[t].pc = "update"
    /\ LET i == Min(QueueIndex(jobQueue, proc[t].sel))
       IN /\ jobQueue' = [jobQueue EXCEPT ![i].status = "processing",
                                          ![i].attempts = @ + 1]
          /\ proc' = [proc EXCEPT ![t].pc = "markRunning", ![t].sel = 0,
                                  ![t].job = jobQueue[i].payload]
    /\ UNCHANGED <<definition, execStatus, steps, idempotency, dlq, activeJobs,
                   timers, listener, cancelPc, handlerRuns, handlerFails,
                   doneEmitted>>
    /\ UNCHANGED auxVars

\* processJob: prisma.stepExecution.update(status running); if the row is
\* gone, markFailed and return
MarkRunning(t) ==
    /\ proc[t].pc = "markRunning"
    /\ LET job == proc[t].job
       IN IF job.id \in LiveRows
          THEN /\ steps' = [steps EXCEPT ![job.id].status = "running",
                                         ![job.id].attempts = job.attempt]
               /\ proc' = [proc EXCEPT ![t].pc = "execute"]
               /\ UNCHANGED <<jobQueue, activeJobs>>
          ELSE /\ jobQueue' = markQueue(jobQueue, job.id, "failed")
               /\ proc' = finishProc(proc, t, activeJobs)
               /\ activeJobs' = finishJobs(proc, t, activeJobs)
               /\ UNCHANGED steps
    /\ UNCHANGED <<definition, execStatus, idempotency, dlq, timers, listener,
                   cancelPc, handlerRuns, handlerFails, doneEmitted>>
    /\ UNCHANGED auxVars

\* processJob: handler.execute(job), markDone / markFailed, the retry
\* decision, the dead-letter entry and the call of handleResult
Execute(t) ==
    /\ proc[t].pc = "execute"
    /\ \E res \in Outcomes(proc[t].job.nodeId) :
        LET job == proc[t].job
        IN /\ handlerRuns' = [handlerRuns EXCEPT ![job.nodeId] = @ + 1]
           /\ handlerFails' = [handlerFails EXCEPT ![job.nodeId] =
                                 IF res.status = "failed" /\ res.retryable
                                 THEN @ + 1 ELSE @]
           /\ jobQueue' = markQueue(jobQueue, job.id,
                             IF res.status = "completed" THEN "done" ELSE "failed")
           /\ IF shouldRetry(job, res)
              THEN /\ proc' = [proc EXCEPT ![t].pc = "retry", ![t].res = res]
                   /\ UNCHANGED dlq
              ELSE /\ dlq' = IF shouldDeadLetter(job, res)
                             THEN Append(dlq, [stepId |-> job.id,
                                               attempts |-> job.attempt])
                             ELSE dlq
                   /\ proc' = [proc EXCEPT ![t].pc = "hrUpdate", ![t].res = res,
                                           ![t].entry = execStatus]
    /\ UNCHANGED <<definition, execStatus, steps, idempotency, activeJobs,
                   timers, listener, cancelPc, doneEmitted>>
    /\ UNCHANGED auxVars

\* (a variant of the removal that leaves the key in place)
idempotencyKeep(ide, node) == ide
\* idempotencyStore.remove(generateKey(executionId, nodeId))
idempotencyRemove(ide, node) == [ide EXCEPT ![node] = 0]

\* processJob, retry branch: step back to pending, idempotencyStore.remove,
\* setTimeout(enqueue retryJob), return
RetryUpdate(t) ==
    /\ proc[t].pc = "retry"
    /\ LET job == proc[t].job
       IN /\ steps' = [steps EXCEPT ![job.id].status = "pending",
                                    ![job.id].attempts = job.attempt]
          /\ idempotency' = idempotencyRemove(idempotency, job.nodeId)
          /\ timers' = Append(timers, [job EXCEPT !.attempt = @ + 1])
    /\ proc' = finishProc(proc, t, activeJobs)
    /\ activeJobs' = finishJobs(proc, t, activeJobs)
    /\ UNCHANGED <<definition, execStatus, jobQueue, dlq, listener, cancelPc,
                   handlerRuns, handlerFails, doneEmitted>>
    /\ UNCHANGED auxVars

\* the backoff timer fires: jobQueue.enqueue(retryJob)
RetryFire(i) ==
    /\ i \in 1..Len(timers)
    /\ jobQueue' = enqueue(jobQueue, timers[i])
    /\ timers' = SubSeq(timers, 1, i - 1) \o SubSeq(timers, i + 1, Len(timers))
    /\ proc' = drainProc(proc, activeJobs)
    /\ activeJobs' = drainJobs(proc, activeJobs)
    /\ UNCHANGED <<definition, execStatus, steps, idempotency, dlq, listener,
                   cancelPc, handlerRuns, handlerFails, doneEmitted>>
    /\ UNCHANGED auxVars

\* ---- handleResult ---------------------------------------------------------
\* 1. prisma.stepExecution.update(status = result.status)
HRUpdateStep(t) ==
    /\ proc[t].pc = "hrUpdate"
    /\ steps' = [steps EXCEPT ![proc[t].job.id].status = proc[t].res.status]
    /\ proc' = [proc EXCEPT ![t].pc = IF proc[t].res.status = "failed"
                                      THEN "hrFailExec" ELSE "hrLoad"]
    /\ UNCHANGED <<definition, execStatus, jobQueue, idempotency, dlq,
                   activeJobs, timers, listener, cancelPc, handlerRuns,
                   handlerFails, doneEmitted>>
    /\ UNCHANGED auxVars

\* 2. failed: prisma.execution.update(status failed)
HRFailExec(t) ==
    /\ proc[t].pc = "hrFailExec"
    /\ execStatus' = "failed"
    /\ proc' = [proc EXCEPT ![t].pc = "hrSweep"]
    /\ UNCHANGED <<definition, steps, jobQueue, idempotency, dlq, activeJobs,
                   timers, listener, cancelPc, handlerRuns, handlerFails,
                   doneEmitted>>
    /\ UNCHANGED auxVars

\* 2. failed: updateMany(pending -> skipped), emit done, return
HRSweep(t) ==
    /\ proc[t].pc = "hrSweep"
    /\ steps' = updateMany(steps, {"pending"}, "skipped")
    /\ doneEmitted' = doneEmitted + 1
    /\ listener' = FALSE
    /\ LET pr1 == emitProc(proc, "failed")
       IN /\ proc' = finishProc(pr1, t, activeJobs)
          /\ activeJobs' = finishJobs(pr1, t, activeJobs)
    /\ UNCHANGED <<definition, execStatus, jobQueue, idempotency, dlq, timers,
                   cancelPc, handlerRuns, handlerFails>>
    /\ UNCHANGED auxVars

\* 3. completed: prisma.execution.findUnique(include steps), edge filtering,
\* the list of rows skipBranch will create
HRLoad(t) ==
    /\ proc[t].pc = "hrLoad"
    /\ LET completedStep == steps[proc[t].job.id]
           targets == skippedBranchTargets(completedStep.nodeId,
                          definition.type[completedStep.nodeId],
                          proc[t].res.result)
           skip == skipBranch(targets, NodesIn({"completed"}),
                              NodesIn({"pending", "running"}))
       IN proc' = [proc EXCEPT ![t].pc = IF skip = <<>> THEN "hrRequery"
                                         ELSE "hrSkip",
                               ![t].skip = skip]
    /\ UNCHANGED <<definition, execStatus, steps, jobQueue, idempotency, dlq,
                   activeJobs, timers, listener, cancelPc, handlerRuns,
                   handlerFails, doneEmitted>>
    /\ UNCHANGED auxVars

\* skipBranch: one prisma.stepExecution.create(status skipped)
HRSkip(t) ==
    /\ proc[t].pc = "hrSkip"
    /\ Len(steps) < MaxSteps
    /\ steps' = Append(steps, [nodeId |-> Head(proc[t].skip),
                               status |-> "skipped", attempts |-> 0])
    /\ proc' = [proc EXCEPT ![t].skip = Tail(@),
                            ![t].pc = IF Len(proc[t].skip) > 1 THEN "hrSkip"
                                      ELSE "hrRequery"]
    /\ UNCHANGED <<definition, execStatus, jobQueue, idempotency, dlq,
                   activeJobs, timers, listener, cancelPc, handlerRuns,
                   handlerFails, doneEmitted>>
    /\ UNCHANGED auxVars

\* prisma.stepExecution.findMany, the ready set, and the three-way branch
HRRequery(t) ==
    /\ proc[t].pc = "hrRequery"
    /\ IF readyNodes # <<>>
       THEN /\ proc' = [proc EXCEPT ![t].pc = "pubCreate", ![t].ready = readyNodes]
            /\ UNCHANGED activeJobs
       ELSE IF NodesIn({"pending", "running"}) = {}
       THEN /\ proc' = [proc EXCEPT ![t].pc = "hrComplete"]
            /\ UNCHANGED activeJobs
       ELSE /\ proc' = finishProc(proc, t, activeJobs)
            /\ activeJobs' = finishJobs(proc, t, activeJobs)
    /\ UNCHANGED <<definition, execStatus, steps, jobQueue, idempotency, dlq,
                   timers, listener, cancelPc, handlerRuns, handlerFails,
                   doneEmitted>>
    /\ UNCHANGED auxVars

\* prisma.execution.update(status completed), emit done
HRComplete(t) ==
    /\ proc[t].pc = "hrComplete"
    /\ execStatus' = "completed"
    /\ doneEmitted' = doneEmitted + 1
    /\ listener' = FALSE
    /\ LET pr1 == emitProc(proc, "completed")
       IN /\ proc' = finishProc(pr1, t, activeJobs)
          /\ activeJobs' = finishJobs(pr1, t, activeJobs)
    /\ UNCHANGED <<definition, steps, jobQueue, idempotency, dlq, timers,
                   cancelPc, handlerRuns, handlerFails>>
    /\ UNCHANGED auxVars

\* ---- POST /api/executions/[id]/cancel -------------------------------------
\* findUnique and the status test (a request for an execution that is not
\* pending or running is answered 400 and changes nothing)
CancelRead ==
    /\ cancelPc = "idle"
    /\ execStatus \in {"pending", "running"}
    /\ cancelPc' = "update"
    /\ UNCHANGED <<definition, execStatus, steps, jobQueue, idempotency, dlq,
                   activeJobs, timers, listener, proc, handlerRuns,
                   handlerFails, doneEmitted>>
    /\ UNCHANGED auxVars

\* prisma.execution.update(status cancelled)
CancelUpdate ==
    /\ cancelPc = "update"
    /\ execStatus' = "cancelled"
    /\ cancelPc' = "sweep"
    /\ UNCHANGED <<definition, steps, jobQueue, idempotency, dlq, activeJobs,
                   timers, listener, proc, handlerRuns, handlerFails,
                   doneEmitted>>
    /\ UNCHANGED auxVars

\* prisma.stepExecution.updateMany(pending, running -> skipped)
CancelSweep ==
    /\ cancelPc = "sweep"
    /\ steps' = updateMany(steps, {"pending", "running"}, "skipped")
    /\ cancelPc' = "idle"
    /\ UNCHANGED <<definition, execStatus, jobQueue, idempotency, dlq,
                   activeJobs, timers, listener, proc, handlerRuns,
                   handlerFails, doneEmitted>>
    /\ UNCHANGED auxVars

Next ==
    \/ ExecCreate
    \/ Timeout
    \/ \E p \in Procs : PubCreate(p) \/ PubDelete(p) \/ PubEnqueue(p)
    \/ Poll
    \/ \E t \in Tasks :
          \/ DequeueSelect(t) \/ DequeueUpdate(t) \/ MarkRunning(t)
          \/ Execute(t) \/ RetryUpdate(t)
          \/ HRUpdateStep(t) \/ HRFailExec(t) \/ HRSweep(t)
          \/ HRLoad(t) \/ HRSkip(t) \/ HRRequery(t) \/ HRComplete(t)
    \/ \E i \in 1..MaxSteps : RetryFire(i)
    \/ CancelRead \/ CancelUpdate \/ CancelSweep

Spec == Init /\ [][Next]_vars

\* The engine without cancellation requests, under fair scheduling: every
\* awaited call settles, every timer fires, and the event loop runs each
\* pending continuation.  waitForExecution's timeout may or may not fire.
NextNoCancel ==
    \/ ExecCreate
    \/ Timeout
    \/ \E p \in Procs : PubCreate(p) \/ PubDelete(p) \/ PubEnqueue(p)
    \/ Poll
    \/ \E t \in Tasks :
          \/ DequeueSelect(t) \/ DequeueUpdate(t) \/ MarkRunning(t)
          \/ Execute(t) \/ RetryUpdate(t)
          \/ HRUpdateStep(t) \/ HRFailExec(t) \/ HRSweep(t)
          \/ HRLoad(t) \/ HRSkip(t) \/ HRRequery(t) \/ HRComplete(t)
    \/ \E i \in 1..MaxSteps : RetryFire(i)

EngineFair ==
    /\ WF_vars(ExecCreate)
    /\ WF_vars(Poll)
    /\ WF_vars(\E i \in 1..MaxSteps : RetryFire(i))
    /\ \A p \in Procs : WF_vars(PubCreate(p) \/ PubDelete(p) \/ PubEnqueue(p))
    /\ \A t \in Tasks :
          WF_vars(DequeueSelect(t) \/ DequeueUpdate(t) \/ MarkRunning(t)
                  \/ Execute(t) \/ RetryUpdate(t)
                  \/ HRUpdateStep(t) \/ HRFailExec(t) \/ HRSweep(t)
                  \/ HRLoad(t) \/ HRSkip(t) \/ HRRequery(t) \/ HRComplete(t))

SpecFair == Init /\ [][NextNoCancel]_vars /\ EngineFair


\* ================================================================ worker pool
\* The job consumer on its own, with more jobs than MAX_CONCURRENCY: jobs are
\* published, drainQueue launches async tasks, each task dequeues (select,
\* then update), marks its step running, runs the handler and hands the
\* result over.  The tasks are anonymous closures: the pool is described by
\* how many tasks are at each position, per queue row they hold.
PoolRows == 1..PoolJobs
NoTasks == [i \in PoolRows |-> 0]

\* a drainQueue that tests activeJobs <= MAX_CONCURRENCY
poolBelowLimitInclusive(aj) == aj <= MAX_CONCURRENCY

\* drainQueue's test: while (activeJobs < MAX_CONCURRENCY)
poolBelowLimit(aj) == aj < MAX_CONCURRENCY

\* drainQueue: activeJobs++ and one async dequeue when below the limit
poolDrain(pl) ==
    IF poolBelowLimit(pl.activeJobs)
    THEN [pl EXCEPT !.activeJobs = @ + 1, !.selecting = @ + 1]
    ELSE pl

InitPool ==
    /\ definition = DefLinear(0)
    /\ EngineStart
    /\ pool = [queue |-> <<>>, steps |-> <<>>, activeJobs |-> 0,
               selecting |-> 0, updating |-> NoTasks, marking |-> NoTasks,
               executing |-> NoTasks]
    /\ backpressure = Off
    /\ scheduler = Off
    /\ dag = Off
    /\ store = Off
    /\ cron = Off
    /\ ServicesOff

\* publishJob: a pending step and its queue row; the "job" event calls drainQueue
PoolPublish ==
    /\ Len(pool.queue) < PoolJobs
    /\ LET id == Len(pool.queue) + 1
       IN pool' = poolDrain([pool EXCEPT
                     !.queue = Append(@, [id |-> id, status |-> "pending"]),
                     !.steps = Append(@, "pending")])
    /\ UNCHANGED <<engineVars, serviceVars, backpressure, scheduler, dag, store, cron>>

\* the poll timer calls drainQueue
PoolPoll ==
    /\ poolDrain(pool) # pool
    /\ pool' = poolDrain(pool)
    /\ UNCHANGED <<engineVars, serviceVars, backpressure, scheduler, dag, store, cron>>

\* JobQueue.dequeue, SELECT: no pending row ends the task (activeJobs--)
PoolSelect ==
    /\ pool.selecting > 0
    /\ pool' = IF PendingIdx(pool.queue) = {}
               THEN [pool EXCEPT !.selecting = @ - 1, !.activeJobs = @ - 1]
               ELSE [pool EXCEPT !.selecting = @ - 1,
                                 !.updating[Min(PendingIdx(pool.queue))] = @ + 1]
    /\ UNCHANGED <<engineVars, serviceVars, backpressure, scheduler, dag, store, cron>>

\* JobQueue.dequeue, UPDATE of the selected row
PoolUpdate(i) ==
    /\ pool.updating[i] > 0
    /\ pool' = [pool EXCEPT !.queue[i].status = "processing",
                            !.updating[i] = @ - 1,
                            !.marking[i] = @ + 1]
    /\ UNCHANGED <<engineVars, serviceVars, backpressure, scheduler, dag, store, cron>>

\* processJob: the step is set to running
PoolMarkRunning(i) ==
    /\ pool.marking[i] > 0
    /\ pool' = [pool EXCEPT !.steps[i] = "running",
                            !.marking[i] = @ - 1,
                            !.executing[i] = @ + 1]
    /\ UNCHANGED <<engineVars, serviceVars, backpressure, scheduler, dag, store, cron>>

\* processJob: the handler returns, markDone, handleResult records the step;
\* then finally { activeJobs--; drainQueue() }
PoolFinish(i) ==
    /\ pool.executing[i] > 0
    /\ pool' = poolDrain([pool EXCEPT !.queue = markQueue(@, i, "done"),
                                      !.steps[i] = "completed",
                                      !.executing[i] = @ - 1,
                                      !.activeJobs = @ - 1])
    /\ UNCHANGED <<engineVars, serviceVars, backpressure, scheduler, dag, store, cron>>

NextPool ==
    \/ PoolPublish
    \/ PoolPoll
    \/ PoolSelect
    \/ \E i \in PoolRows : PoolUpdate(i) \/ PoolMarkRunning(i) \/ PoolFinish(i)

SpecPool == InitPool /\ [][NextPool]_vars

\* tasks inside processJob
poolInProcessJob ==
    LET RECURSIVE sum(_)
        sum(i) == IF i = 0 THEN 0
                  ELSE pool.marking[i] + pool.executing[i] + sum(i - 1)
    IN sum(PoolJobs)


\* =============================================================== backpressure
\* BackpressureController with the queue depth it reads (jobQueue.depth, the
\* counter totalEnqueued - totalProcessed - totalFailed, never below 0).
\* armed and last are history: a call has set pressured and no call since has
\* seen depth <= lowWaterMark; the range the last call's depth was in.

\* canAccept with the third test on highWaterMark instead of lowWaterMark
canAcceptStateNoHysteresis(st, depth) ==
    IF depth >= maxQueueDepth THEN "rejecting"
    ELSE IF depth >= highWaterMark THEN "pressured"
    ELSE "accepting"

\* canAccept: the value of _state after the call
canAcceptState(st, depth) ==
    IF depth >= maxQueueDepth THEN "rejecting"
    ELSE IF depth >= highWaterMark THEN "pressured"
    ELSE IF depth <= lowWaterMark THEN "accepting"
    ELSE st

\* canAccept: the value returned
canAccept(depth) == ~(depth >= maxQueueDepth)

depthRange(depth) ==
    IF depth >= maxQueueDepth THEN "max"
    ELSE IF depth >= highWaterMark THEN "high"
    ELSE IF depth <= lowWaterMark THEN "low"
    ELSE "mid"

InitBackpressure ==
    /\ definition = DefLinear(0)
    /\ EngineStart
    /\ pool = Off
    /\ backpressure = [state |-> "accepting", depth |-> 0, armed |-> FALSE,
                       last |-> "none", accepted |-> TRUE]
    /\ scheduler = Off
    /\ dag = Off
    /\ store = Off
    /\ cron = Off
    /\ ServicesOff

\* JobQueue.enqueue: totalEnqueued++
BpEnqueue ==
    /\ backpressure.depth < BpMaxDepth
    /\ backpressure' = [backpressure EXCEPT !.depth = @ + 1]
    /\ UNCHANGED <<engineVars, serviceVars, pool, scheduler, dag, store, cron>>

\* JobQueue.markDone / markFailed: totalProcessed++ / totalFailed++
BpProcessed ==
    /\ backpressure.depth > 0
    /\ backpressure' = [backpressure EXCEPT !.depth = @ - 1]
    /\ UNCHANGED <<engineVars, serviceVars, pool, scheduler, dag, store, cron>>

\* backpressure.canAccept()
BpCanAccept ==
    /\ LET depth == backpressure.depth
           st == canAcceptState(backpressure.state, depth)
       IN backpressure' =
             [backpressure EXCEPT
                !.state = st,
                !.accepted = canAccept(depth),
                !.last = depthRange(depth),
                !.armed = IF depth <= lowWaterMark THEN FALSE
                          ELSE IF st = "pressured" THEN TRUE
                          ELSE @]
    /\ UNCHANGED <<engineVars, serviceVars, pool, scheduler, dag, store, cron>>

NextBackpressure == BpEnqueue \/ BpProcessed \/ BpCanAccept

SpecBackpressure == InitBackpressure /\ [][NextBackpressure]_vars


\* ================================================================== scheduler
\* Scheduler (one instance) with the cron triggers it reads and a clock that
\* counts calendar minutes.  A tick body is split at its awaits and at its
\* reads of the clock, so the minute may change between any two of them.
\* rows are the Trigger rows with the status of their workflow, changed by
\* the trigger and workflow routes while ticks run.
\* fired, firedInfo, skipped and refused are history: the firings in order,
\* each with the minute written to lastFiredAt; for each firing the row its
\* tick read and the minute at which shouldRun was evaluated; a trigger was
\* skipped as already fired this minute; a tick call returned at the
\* _isProcessing test; findMany or a trigger update has thrown.
Triggers == <<"everyMinute", "evenMinutes">>
Ticks == 1..MaxTicks
NeverFired == 0 - 1

\* shouldRun(expression, now) for the two expressions of the triggers:
\* "* * * * *" and "*/2 * * * *"
shouldRunAt(trigger, minute) ==
    IF trigger = "everyMinute" THEN TRUE ELSE minute % 2 = 0

\* a tick that never finds the trigger already fired
firedThisMinuteNever(lastFired, minute) == FALSE

\* tick: lastFiredAt is set and in the same calendar minute as now
firedThisMinute(lastFired, minute) ==
    lastFired # NeverFired /\ lastFired = minute

\* the kinds of trigger row: eligible, or eligible but for one attribute
TriggerKinds == {"eligible", "webhook", "disabled", "inactive", "noExpression"}
triggerRow(kind) ==
    [type |-> IF kind = "webhook" THEN "webhook" ELSE "cron",
     enabled |-> kind # "disabled",
     status |-> IF kind = "inactive" THEN "draft" ELSE "active",
     expression |-> kind # "noExpression"]

\* (a tick that takes every trigger row)
tickEligibleAny(row) == TRUE

\* tick: findMany where type cron and enabled, workflow active, expression set
tickEligible(row) ==
    /\ row.type = "cron"
    /\ row.enabled
    /\ row.status = "active"
    /\ row.expression

\* a tick that does not test _isProcessing
tickEntersAlways(sch) == TRUE

\* tick: if (this._isProcessing) return
tickEnters(sch) == ~sch.isProcessing

TickIdle == [pc |-> "idle", snap |-> <<>>, rows |-> <<>>, idx |-> 0,
             stamp |-> NeverFired, due |-> NeverFired]

idleTicks(sch) == {k \in Ticks : sch.tick[k].pc = "idle"}

\* a call of tick(): returns at once, or takes the mutex and awaits findMany
tickCall(sch) ==
    IF idleTicks(sch) = {} THEN sch
    ELSE IF tickEnters(sch)
    THEN [sch EXCEPT !.isProcessing = TRUE,
                     !.tick[Min(idleTicks(sch))].pc = "find"]
    ELSE [sch EXCEPT !.refused = TRUE]

\* (a tick whose throw leaves without the finally block)
tickThrowNoFinally(sch, k) == [sch EXCEPT !.tick[k] = TickIdle]

\* the try block throws: catch (errors++), finally { _isProcessing = false }
tickThrow(sch, k) ==
    [sch EXCEPT !.tick[k] = TickIdle, !.isProcessing = FALSE, !.refused = FALSE]

\* end of one loop iteration: the next trigger, or finally { _isProcessing = false }
tickAdvance(sch, k) ==
    IF sch.tick[k].idx < Len(Triggers)
    THEN [sch EXCEPT !.tick[k].pc = "decide", !.tick[k].idx = @ + 1,
                     !.tick[k].stamp = NeverFired, !.tick[k].due = NeverFired]
    ELSE [sch EXCEPT !.tick[k] = TickIdle, !.isProcessing = FALSE,
                     !.refused = FALSE]

InitScheduler ==
    /\ definition = DefLinear(0)
    /\ EngineStart
    /\ pool = Off
    /\ backpressure = Off
    /\ scheduler = [isRunning |-> FALSE, timer |-> FALSE, isProcessing |-> FALSE,
                    now |-> 0,
                    lastFiredAt |-> [tr \in Range(Triggers) |-> NeverFired],
                    rows |-> [tr \in Range(Triggers) |-> triggerRow("eligible")],
                    edits |-> 0,
                    tick |-> [k \in Ticks |-> TickIdle],
                    fired |-> <<>>, firedInfo |-> <<>>, threw |-> FALSE,
                    skipped |-> FALSE, refused |-> FALSE]
    /\ dag = Off
    /\ store = Off
    /\ cron = Off
    /\ ServicesOff

\* the clock reaches the next calendar minute
SchedClock ==
    /\ scheduler.now < MaxMinute
    /\ scheduler' = [scheduler EXCEPT !.now = @ + 1]
    /\ UNCHANGED <<engineVars, serviceVars, pool, backpressure, dag, store, cron>>

\* a route changes a trigger (type, enabled, expression) or its workflow's status
SchedEdit ==
    /\ scheduler.edits < MaxEdits
    /\ \E tr \in Range(Triggers), kind \in TriggerKinds :
          /\ scheduler.rows[tr] # triggerRow(kind)
          /\ scheduler' = [scheduler EXCEPT !.rows[tr] = triggerRow(kind),
                                            !.edits = @ + 1]
    /\ UNCHANGED <<engineVars, serviceVars, pool, backpressure, dag, store, cron>>

\* start(): no-op when running; else tick() at once and setInterval
SchedStart ==
    /\ ~scheduler.isRunning
    /\ scheduler' = tickCall([scheduler EXCEPT !.isRunning = TRUE, !.timer = TRUE])
    /\ UNCHANGED <<engineVars, serviceVars, pool, backpressure, dag, store, cron>>

\* stop(): no-op when stopped; else clearInterval
SchedStop ==
    /\ scheduler.isRunning
    /\ scheduler' = [scheduler EXCEPT !.isRunning = FALSE, !.timer = FALSE]
    /\ UNCHANGED <<engineVars, serviceVars, pool, backpressure, dag, store, cron>>

\* the interval timer calls tick()
SchedTimer ==
    /\ scheduler.timer
    /\ tickCall(scheduler) # scheduler
    /\ scheduler' = tickCall(scheduler)
    /\ UNCHANGED <<engineVars, serviceVars, pool, backpressure, dag, store, cron>>

\* prisma.trigger.findMany resolves with the rows, their workflow's status
\* and their lastFiredAt, or rejects
TickFind(k) ==
    /\ scheduler.tick[k].pc = "find"
    /\ \E thrown \in BOOLEAN :
          scheduler' =
             IF thrown
             THEN tickThrow([scheduler EXCEPT !.threw = TRUE], k)
             ELSE [scheduler EXCEPT !.tick[k].pc = "decide", !.tick[k].idx = 1,
                                    !.tick[k].snap = scheduler.lastFiredAt,
                                    !.tick[k].rows = scheduler.rows]
    /\ UNCHANGED <<engineVars, serviceVars, pool, backpressure, dag, store, cron>>

\* the row is among those found, its workflow is active, it has an
\* expression; if (!shouldRun(expression)) continue
TickDecide(k) ==
    /\ scheduler.tick[k].pc = "decide"
    /\ LET tr == Triggers[scheduler.tick[k].idx]
       IN scheduler' =
             IF tickEligible(scheduler.tick[k].rows[tr]) /\ shouldRunAt(tr, scheduler.now)
             THEN [scheduler EXCEPT !.tick[k].pc = "check",
                                    !.tick[k].due = scheduler.now]
             ELSE tickAdvance(scheduler, k)
    /\ UNCHANGED <<engineVars, serviceVars, pool, backpressure, dag, store, cron>>

\* the anti-double-fire test on the lastFiredAt that findMany returned
TickCheck(k) ==
    /\ scheduler.tick[k].pc = "check"
    /\ LET tr == Triggers[scheduler.tick[k].idx]
       IN scheduler' =
             IF firedThisMinute(scheduler.tick[k].snap[tr], scheduler.now)
             THEN tickAdvance([scheduler EXCEPT !.skipped = TRUE], k)
             ELSE [scheduler EXCEPT !.tick[k].pc = "update"]
    /\ UNCHANGED <<engineVars, serviceVars, pool, backpressure, dag, store, cron>>

\* prisma.trigger.update({lastFiredAt: new Date()}) resolves, or rejects and
\* the inner catch goes on with the next trigger
TickUpdate(k) ==
    /\ scheduler.tick[k].pc = "update"
    /\ LET tr == Triggers[scheduler.tick[k].idx]
       IN \E thrown \in BOOLEAN :
             scheduler' =
                IF thrown
                THEN tickAdvance([scheduler EXCEPT !.threw = TRUE], k)
                ELSE [scheduler EXCEPT !.lastFiredAt[tr] = scheduler.now,
                                       !.tick[k].stamp = scheduler.now,
                                       !.tick[k].pc = "execute"]
    /\ UNCHANGED <<engineVars, serviceVars, pool, backpressure, dag, store, cron>>

\* the update has resolved: executeWorkflow(trigger.workflow.id, input)
TickExecute(k) ==
    /\ scheduler.tick[k].pc = "execute"
    /\ LET tr == Triggers[scheduler.tick[k].idx]
       IN scheduler' = tickAdvance(
             [scheduler EXCEPT
                 !.fired = Append(@, <<tr, scheduler.tick[k].stamp>>),
                 !.firedInfo = Append(@, [trigger |-> tr,
                                          row |-> scheduler.tick[k].rows[tr],
                                          due |-> scheduler.tick[k].due,
                                          afterThrow |-> scheduler.threw])], k)
    /\ UNCHANGED <<engineVars, serviceVars, pool, backpressure, dag, store, cron>>

NextScheduler ==
    \/ SchedClock
    \/ SchedEdit
    \/ SchedStart
    \/ SchedStop
    \/ SchedTimer
    \/ \E k \in Ticks :
          TickFind(k) \/ TickDecide(k) \/ TickCheck(k) \/ TickUpdate(k) \/ TickExecute(k)

SpecScheduler == InitScheduler /\ [][NextScheduler]_vars

\* every step of a tick body is the settling of an awaited call or the
\* synchronous code after it, so a tick that can take a step takes it
SchedulerFair ==
    \A k \in Ticks :
        WF_vars(TickFind(k) \/ TickDecide(k) \/ TickCheck(k) \/ TickUpdate(k)
                \/ TickExecute(k))

SpecSchedulerFair == SpecScheduler /\ SchedulerFair


\* ================================================================ validateDAG
\* validateDAG(definition) of src/lib/validations.ts.  Node and edge IDs are
\* numbers; errors is the set of the kinds of message the code pushes.
HasDuplicate(q) == \E i, j \in 1..Len(q) : i < j /\ q[i] = q[j]

\* a test that never reports a cycle
cycleFoundNever(processedCount, total) == FALSE

\* if (processedCount !== nodes.length)
cycleFound(processedCount, total) == processedCount # total

\* a fork test that accepts a single outgoing edge
forkTooSmallBelowOne(outgoing) == outgoing < 1

\* if (outgoing.length < 2)
forkTooSmall(outgoing) == outgoing < 2

\* if (incoming.length < 2)
joinTooSmall(incoming) == incoming < 2

\* adjacency: for each node the targets of its edges, in edge order
adjacency(nodeIds, edges) ==
    [id \in nodeIds |->
        LET out == SelectSeq(edges, LAMBDA e : e.source = id)
        IN [k \in 1..Len(out) |-> out[k].target]]

inDegree(nodeIds, edges) ==
    [id \in nodeIds |-> Len(SelectSeq(edges, LAMBDA e : e.target = id))]

\* the inner loop of Kahn's algorithm over the neighbours of the current node
RECURSIVE kahnRelax(_, _, _)
kahnRelax(neighbors, deg, queue) ==
    IF neighbors = <<>> THEN [deg |-> deg, queue |-> queue]
    ELSE LET nb == Head(neighbors)
             newDegree == deg[nb] - 1
         IN kahnRelax(Tail(neighbors), [deg EXCEPT ![nb] = newDegree],
                      IF newDegree = 0 THEN Append(queue, nb) ELSE queue)

\* while (queue.length > 0) { ... processedCount++ ... }
RECURSIVE processedCount(_, _, _, _)
processedCount(queue, deg, adj, count) ==
    IF queue = <<>> THEN count
    ELSE LET step == kahnRelax(adj[Head(queue)], deg, Tail(queue))
         IN processedCount(step.queue, step.deg, adj, count + 1)

\* the breadth-first search from the start node
RECURSIVE reachable(_, _, _)
reachable(bfsQueue, seen, adj) ==
    IF bfsQueue = <<>> THEN seen
    ELSE LET fresh == SelectSeq(adj[Head(bfsQueue)], LAMBDA nb : nb \notin seen)
         IN reachable(Tail(bfsQueue) \o fresh, seen \cup Range(fresh), adj)

validateDAG(def) ==
    LET nodes == def.nodes
        edges == def.edges
        nodeIds == {nodes[i].id : i \in 1..Len(nodes)}
        startNodes == SelectSeq(nodes, LAMBDA nd : nd.type = "start")
        endNodes == SelectSeq(nodes, LAMBDA nd : nd.type = "end")
        structural ==
            (IF HasDuplicate([i \in 1..Len(nodes) |-> nodes[i].id])
                THEN {"duplicateNode"} ELSE {})
            \cup (IF HasDuplicate([i \in 1..Len(edges) |-> edges[i].id])
                THEN {"duplicateEdge"} ELSE {})
            \cup (IF Len(startNodes) = 0 THEN {"noStart"}
                  ELSE IF Len(startNodes) > 1 THEN {"manyStarts"} ELSE {})
            \cup (IF Len(endNodes) = 0 THEN {"noEnd"} ELSE {})
            \cup (IF \E i \in 1..Len(edges) : edges[i].source \notin nodeIds
                THEN {"badSource"} ELSE {})
            \cup (IF \E i \in 1..Len(edges) : edges[i].target \notin nodeIds
                THEN {"badTarget"} ELSE {})
        adj == adjacency(nodeIds, edges)
        deg == inDegree(nodeIds, edges)
        order == [i \in 1..Len(nodes) |-> nodes[i].id]
        queue == SelectSeq(order, LAMBDA id : deg[id] = 0)
        cycle == IF cycleFound(processedCount(queue, deg, adj, 0), Len(nodes))
                 THEN {"cycle"} ELSE {}
        unreached ==
            IF Len(startNodes) = 1 /\ cycle = {}
            THEN IF nodeIds \subseteq reachable(<<startNodes[1].id>>, {startNodes[1].id}, adj)
                 THEN {} ELSE {"unreachable"}
            ELSE {}
        forks ==
            IF \E i \in 1..Len(nodes) :
                  /\ nodes[i].type = "fork"
                  /\ forkTooSmall(Len(SelectSeq(edges, LAMBDA e : e.source = nodes[i].id)))
            THEN {"fork"} ELSE {}
        joins ==
            IF \E i \in 1..Len(nodes) :
                  /\ nodes[i].type = "join"
                  /\ joinTooSmall(Len(SelectSeq(edges, LAMBDA e : e.target = nodes[i].id)))
            THEN {"join"} ELSE {}
        errors == cycle \cup unreached \cup forks \cup joins
    IN IF Len(nodes) = 0 THEN [valid |-> FALSE, errors |-> {"noNodes"}]
       ELSE IF structural # {} THEN [valid |-> FALSE, errors |-> structural]
       ELSE [valid |-> errors = {}, errors |-> errors]

\* The definitions validated: up to MaxNodes nodes whose IDs are their
\* positions, except that the last may repeat the ID of the first; up to
\* MaxEdges edges, likewise, between any two IDs of 0..MaxNodes (0 and the
\* IDs above the number of nodes are not defined), listed in one order per
\* multiset of edges.
DagNodeLists ==
    UNION {{[k \in 1..n |-> [id |-> IF dup /\ k = n /\ n > 1 THEN 1 ELSE k, type |-> ty[k]]] :
               ty \in [1..n -> {"start", "end", "action", "fork", "join"}], dup \in BOOLEAN} : n \in 0..MaxNodes}

DagEndLists ==
    UNION {{q \in [1..m -> (0..MaxNodes) \X (0..MaxNodes)] :
               \A k \in 1..(m - 1) :
                  q[k][1] * (MaxNodes + 1) + q[k][2] <= q[k + 1][1] * (MaxNodes + 1) + q[k + 1][2]} :
           m \in 0..MaxEdges}

DagEdgeLists ==
    {[k \in 1..Len(q) |-> [id |-> IF dup /\ k = Len(q) /\ k > 1 THEN 1 ELSE k,
                           source |-> q[k][1], target |-> q[k][2]]] :
        q \in DagEndLists, dup \in BOOLEAN}

InitDag ==
    /\ definition = DefLinear(0)
    /\ EngineStart
    /\ pool = Off
    /\ backpressure = Off
    /\ scheduler = Off
    /\ \E nodes \in DagNodeLists, edges \in DagEdgeLists :
          dag = [def |-> [nodes |-> nodes, edges |-> edges], validated |-> FALSE,
                 result |-> [valid |-> FALSE, errors |-> {}]]
    /\ store = Off
    /\ cron = Off
    /\ ServicesOff

DagValidate ==
    /\ ~dag.validated
    /\ dag' = [dag EXCEPT !.validated = TRUE, !.result = validateDAG(dag.def)]
    /\ UNCHANGED <<engineVars, serviceVars, pool, backpressure, scheduler, store, cron>>

NextDag == DagValidate

SpecDag == InitDag /\ [][NextDag]_vars

\* the properties of a definition, stated on the graph itself
DagIds(def) == {def.nodes[i].id : i \in 1..Len(def.nodes)}

DagTopologicalOrder(def) ==
    \E pos \in [DagIds(def) -> 1..Len(def.nodes)] :
        \A i \in 1..Len(def.edges) :
            /\ def.edges[i].source \in DagIds(def)
            /\ def.edges[i].target \in DagIds(def)
            => pos[def.edges[i].source] < pos[def.edges[i].target]

DagPath(def, a, b) ==
    \E n \in 1..Len(def.nodes) :
        \E path \in [1..n -> DagIds(def)] :
            /\ path[1] = a
            /\ path[n] = b
            /\ \A k \in 1..(n - 1) :
                  \E i \in 1..Len(def.edges) :
                     def.edges[i].source = path[k] /\ def.edges[i].target = path[k + 1]

DagStarts(def) == {i \in 1..Len(def.nodes) : def.nodes[i].type = "start"}

DagAllReachable(def) ==
    \A i \in DagStarts(def) : \A id \in DagIds(def) : DagPath(def, def.nodes[i].id, id)

DagWellFormed(def) ==
    /\ Cardinality(DagStarts(def)) = 1
    /\ \E i \in 1..Len(def.nodes) : def.nodes[i].type = "end"
    /\ \A i, j \in 1..Len(def.nodes) : def.nodes[i].id = def.nodes[j].id => i = j
    /\ \A i, j \in 1..Len(def.edges) : def.edges[i].id = def.edges[j].id => i = j
    /\ \A i \in 1..Len(def.edges) :
          def.edges[i].source \in DagIds(def) /\ def.edges[i].target \in DagIds(def)
    /\ DagTopologicalOrder(def)
    /\ DagAllReachable(def)
    /\ \A i \in 1..Len(def.nodes) :
          def.nodes[i].type = "fork" =>
             Cardinality({k \in 1..Len(def.edges) : def.edges[k].source = def.nodes[i].id}) >= 2
    /\ \A i \in 1..Len(def.nodes) :
          def.nodes[i].type = "join" =>
             Cardinality({k \in 1..Len(def.edges) : def.edges[k].target = def.nodes[i].id}) >= 2


\* ========================================================== idempotency store
\* IdempotencyStore of src/lib/queue/idempotency.ts with a clock.  entries is
\* the Map; written and last are history: for each key the last entry that a
\* checkAndSet stored and that no remove has deleted since, with the instant
\* and the ttl of that call; and the last operation with what it returned.
StoreKeys == {"e1:A", "e1:B"}
NoEntry == [present |-> FALSE, stepId |-> "", expiresAt |-> 0]
NoWrite == [present |-> FALSE, stepId |-> "", at |-> 0, ttl |-> 0]
NoCall == [op |-> "none", key |-> "", stepId |-> "", now |-> 0, duplicate |-> FALSE,
           existingStepId |-> "", absent |-> FALSE, before |-> NoWrite]

\* a test that finds every entry expired
entryLiveNever(expiresAt, now) == FALSE

\* checkAndSet: existing.expiresAt > Date.now()
entryLive(expiresAt, now) == expiresAt > now

InitStore ==
    /\ definition = DefLinear(0)
    /\ EngineStart
    /\ pool = Off
    /\ backpressure = Off
    /\ scheduler = Off
    /\ dag = Off
    /\ store = [now |-> 0,
                entries |-> [k \in StoreKeys |-> NoEntry],
                written |-> [k \in StoreKeys |-> NoWrite],
                last |-> NoCall]
    /\ cron = Off
    /\ ServicesOff

StoreClock ==
    /\ store.now < MaxNow
    /\ store' = [store EXCEPT !.now = @ + 1]
    /\ UNCHANGED <<engineVars, serviceVars, pool, backpressure, scheduler, dag, cron>>

checkAndSet(key, stepId, ttlMs) ==
    LET existing == store.entries[key]
        call == [op |-> "checkAndSet", key |-> key, stepId |-> stepId, now |-> store.now,
                 absent |-> ~existing.present, before |-> store.written[key]]
    IN /\ store' =
             IF existing.present /\ entryLive(existing.expiresAt, store.now)
             THEN [store EXCEPT !.last = call @@ [duplicate |-> TRUE,
                                                  existingStepId |-> existing.stepId]]
             ELSE [store EXCEPT
                      !.entries[key] = [present |-> TRUE, stepId |-> stepId,
                                        expiresAt |-> store.now + ttlMs],
                      !.written[key] = [present |-> TRUE, stepId |-> stepId,
                                        at |-> store.now, ttl |-> ttlMs],
                      !.last = call @@ [duplicate |-> FALSE, existingStepId |-> ""]]
       /\ UNCHANGED <<engineVars, serviceVars, pool, backpressure, scheduler, dag, cron>>

remove(key) ==
    /\ store' = [store EXCEPT !.entries[key] = NoEntry,
                              !.written[key] = NoWrite,
                              !.last = [NoCall EXCEPT !.op = "remove", !.key = key,
                                                      !.now = store.now]]
    /\ UNCHANGED <<engineVars, serviceVars, pool, backpressure, scheduler, dag, cron>>

\* the interval timer: delete every entry with expiresAt <= now
cleanup ==
    /\ \E k \in StoreKeys : store.entries[k].present /\ store.entries[k].expiresAt <= store.now
    /\ store' = [store EXCEPT !.entries =
                    [k \in StoreKeys |->
                        IF store.entries[k].present /\ store.entries[k].expiresAt <= store.now
                        THEN NoEntry ELSE store.entries[k]],
                             !.last = [NoCall EXCEPT !.op = "cleanup", !.now = store.now]]
    /\ UNCHANGED <<engineVars, serviceVars, pool, backpressure, scheduler, dag, cron>>

NextStore ==
    \/ StoreClock
    \/ \E k \in StoreKeys, s \in {"s1", "s2"}, ttl \in 1..MaxTtl : checkAndSet(k, s, ttl)
    \/ \E k \in StoreKeys : remove(k)
    \/ cleanup

SpecStore == InitStore /\ [][NextStore]_vars


\* ================================================================ cron parser
\* parseField, parseCron, shouldRun and getNextRunTime of the cron parser.
\* A field is the list of its comma-separated parts; a part is a wildcard, a
\* value, a range a-b, or any of the three followed by /step.  Instants are
\* minutes since the local midnight that begins Sunday 1 November 2026, with
\* seconds; the calendar window is the first CronHorizon minutes of that day.
\* Date reads and writes its fields in local time, so the zone of the process
\* is an input: a fixed offset, or an offset that changes by an hour two
\* hours into the window, backwards (clocks repeat 01:00-01:59) or forwards
\* (clocks skip 02:00-02:59).
maxIterations == 366 * 24 * 60

\* the instant of the zone's transition and the offset after it
zoneTransition == 120

zoneOffsetAfter(zone) ==
    IF zone = "fallBack" THEN 0 - 60 ELSE IF zone = "springForward" THEN 60 ELSE 0

\* LocalTime(t) of ECMAScript: the local minute of an instant
LocalTime(zone, t) == IF t < zoneTransition THEN t ELSE t + zoneOffsetAfter(zone)

\* UTC(tlocal) of ECMAScript: a repeated or skipped local time is read with
\* the offset before the transition
UTC(zone, tlocal) ==
    IF tlocal < zoneTransition THEN tlocal
    ELSE IF tlocal - zoneOffsetAfter(zone) >= zoneTransition
         THEN tlocal - zoneOffsetAfter(zone)
         ELSE tlocal

CronStar == [kind |-> "star", a |-> 0, b |-> 0, step |-> 0]
CronValue(v) == [kind |-> "value", a |-> v, b |-> 0, step |-> 0]
CronRange(a, b) == [kind |-> "range", a |-> a, b |-> b, step |-> 0]
CronStep(base, step) == [base EXCEPT !.kind = base.kind \o "/", !.step = step]

\* one part of a field: [ok, values]; ok is false where the code throws
parsePart(part, min, max) ==
    IF part.kind \in {"star/", "value/", "range/"}
    THEN IF part.step <= 0 THEN [ok |-> FALSE, values |-> {}]
         ELSE LET start == IF part.kind = "star/" THEN min ELSE part.a
                  end == IF part.kind = "range/" THEN part.b ELSE max
              IN [ok |-> TRUE,
                  values |-> {i \in start..end : (i - start) % part.step = 0}]
    ELSE IF part.kind = "range" THEN [ok |-> TRUE, values |-> part.a..part.b]
    ELSE IF part.kind = "star" THEN [ok |-> TRUE, values |-> min..max]
    ELSE IF part.a >= min /\ part.a <= max THEN [ok |-> TRUE, values |-> {part.a}]
    ELSE [ok |-> FALSE, values |-> {}]

parseField(field, min, max) ==
    [ok |-> \A k \in 1..Len(field) : parsePart(field[k], min, max).ok,
     values |-> UNION {parsePart(field[k], min, max).values : k \in 1..Len(field)}]

parseCron(expression) ==
    LET minute == parseField(expression[1], 0, 59)
        hour == parseField(expression[2], 0, 23)
        dayOfMonth == parseField(expression[3], 1, 31)
        month == parseField(expression[4], 1, 12)
        dayOfWeek == parseField(expression[5], 0, 6)
    IN [ok |-> minute.ok /\ hour.ok /\ dayOfMonth.ok /\ month.ok /\ dayOfWeek.ok,
        minute |-> minute.values, hour |-> hour.values,
        dayOfMonth |-> dayOfMonth.values, month |-> month.values,
        dayOfWeek |-> dayOfWeek.values]

\* the five tests on getMinutes(), getHours(), getDate(), getMonth() + 1 and
\* getDay() of a local time of the window (a day of November)
cronMatches(fields, tlocal) ==
    /\ tlocal % 60 \in fields.minute
    /\ (tlocal \div 60) % 24 \in fields.hour
    /\ 1 + (tlocal \div 1440) \in fields.dayOfMonth
    /\ 10 + 1 \in fields.month
    /\ (tlocal \div 1440) % 7 \in fields.dayOfWeek

shouldRun(zone, expression, now) ==
    LET fields == parseCron(expression)
    IN fields.ok /\ cronMatches(fields, LocalTime(zone, now))

CronNull == [kind |-> "null", at |-> 0, i |-> 0]
CronSearching(candidate, i) == [kind |-> "searching", at |-> candidate, i |-> i]

\* the loop of getNextRunTime, for at most budget iterations; a candidate
\* past the window ends the search
RECURSIVE nextCandidate(_, _, _, _, _)
nextCandidate(zone, fields, candidate, i, budget) ==
    IF i >= maxIterations THEN CronNull
    ELSE IF candidate > CronHorizon THEN [CronNull EXCEPT !.kind = "beyond"]
    ELSE IF budget = 0 THEN CronSearching(candidate, i)
    ELSE IF cronMatches(fields, LocalTime(zone, candidate)) THEN [kind |-> "date", at |-> candidate, i |-> 0]
    ELSE nextCandidate(zone, fields, UTC(zone, LocalTime(zone, candidate) + 1),
                       i + 1, budget - 1)

\* getNextRunTime up to its loop.  from is [minute, seconds]; setSeconds(0, 0)
\* and setMinutes(getMinutes() + 1) each go through the local time of the
\* candidate
getNextRunTime(zone, expression, from) ==
    LET fields == parseCron(expression)
        floored == UTC(zone, LocalTime(zone, from.minute))
        first == UTC(zone, LocalTime(zone, floored) + 1)
    IN IF ~fields.ok THEN CronNull ELSE CronSearching(first, 0)

CronExpressions ==
    {<<mi, ho, da, mo, wd>> :
        mi \in {<<CronStar>>, <<CronValue(30)>>, <<CronValue(0), CronValue(31)>>,
                <<CronRange(58, 61)>>, <<CronRange(5, 1)>>, <<CronStep(CronStar, 20)>>,
                <<CronStep(CronValue(50), 5)>>, <<CronStep(CronStar, 0)>>, <<CronValue(60)>>},
        ho \in {<<CronStar>>, <<CronValue(1)>>, <<CronValue(2)>>, <<CronRange(0, 1)>>},
        da \in {<<CronStar>>, <<CronValue(2)>>},
        mo \in {<<CronStar>>, <<CronValue(11)>>},
        wd \in {<<CronStar>>, <<CronValue(0)>>}}

CronInstants ==
    {[minute |-> m, seconds |-> sec] :
        m \in {x \in 0..(CronHorizon - 1) : x % 15 \in {0, 14}}, sec \in {0, 30}}

InitCron ==
    /\ definition = DefLinear(0)
    /\ EngineStart
    /\ pool = Off
    /\ backpressure = Off
    /\ scheduler = Off
    /\ dag = Off
    /\ store = Off
    /\ \E zone \in {"fixed", "fallBack", "springForward"},
          expression \in CronExpressions, from \in CronInstants :
          cron = [zone |-> zone, expression |-> expression, from |-> from,
                  pc |-> "start", next |-> CronNull, ran |-> FALSE]
    /\ ServicesOff

CronNext ==
    /\ cron.pc = "start"
    /\ cron' = [cron EXCEPT !.pc = "next",
                            !.next = getNextRunTime(cron.zone, cron.expression, cron.from)]
    /\ UNCHANGED <<engineVars, serviceVars, pool, backpressure, scheduler, dag, store>>

CronSearch ==
    /\ cron.pc = "next"
    /\ cron.next.kind = "searching"
    /\ cron' = [cron EXCEPT !.next = nextCandidate(cron.zone, parseCron(cron.expression),
                                                   cron.next.at, cron.next.i, CronChunk)]
    /\ UNCHANGED <<engineVars, serviceVars, pool, backpressure, scheduler, dag, store>>

\* shouldRun at the time that getNextRunTime returned
CronShouldRun ==
    /\ cron.pc = "next"
    /\ cron.next.kind = "date"
    /\ cron' = [cron EXCEPT !.pc = "done",
                            !.ran = shouldRun(cron.zone, cron.expression, cron.next.at)]
    /\ UNCHANGED <<engineVars, serviceVars, pool, backpressure, scheduler, dag, store>>

NextCron == CronNext \/ CronSearch \/ CronShouldRun

SpecCron == InitCron /\ [][NextCron]_vars


\* ================================================================= publisher
\* publishJob for the nodes of one execution, with the idempotency store's
\* expiry and the backpressure test.  depth is jobQueue.depth, moved also by
\* the jobs of other executions; rejected and last are history: per node the
\* step that a rejected call left without a job, and the last call returned.
DEFAULT_TTL_MS == 5 * 60 * 1000

PubNodes == {"A", "B"}
PubIdle == [pc |-> "idle", node |-> "", step |-> 0, accepting |-> FALSE,
            afterRejection |-> FALSE]
PubNoCall == [done |-> FALSE, node |-> "", afterRejection |-> FALSE,
              accepting |-> FALSE, enqueued |-> FALSE]

\* the call returns: what is recorded of it
pubReturn(pub, enqueued) ==
    [pub EXCEPT !.call = PubIdle,
                !.last = [done |-> TRUE, node |-> pub.call.node,
                          afterRejection |-> pub.call.afterRejection,
                          accepting |-> pub.call.accepting /\ canAccept(pub.depth),
                          enqueued |-> enqueued]]

InitPublisher ==
    /\ definition = DefLinear(0)
    /\ EngineStart
    /\ pool = Off
    /\ backpressure = Off
    /\ scheduler = Off
    /\ dag = Off
    /\ store = Off
    /\ cron = Off
    /\ publisher = [now |-> 0, jumps |-> 0, depth |-> 0, steps |-> <<>>,
                    keys |-> [n \in PubNodes |-> NoEntry],
                    jobs |-> <<>>, call |-> PubIdle,
                    rejected |-> [n \in PubNodes |-> 0], last |-> PubNoCall]
    /\ workflow = Off
    /\ consumer = Off
    /\ jobq = Off

\* time passes: a millisecond, or all but a millisecond of the ttl
PubClock ==
    /\ publisher.jumps < PubMaxJumps
    /\ \E d \in {1, DEFAULT_TTL_MS - 1} :
          publisher' = [publisher EXCEPT !.now = @ + d, !.jumps = @ + 1]
    /\ UNCHANGED <<engineVars, pool, backpressure, scheduler, dag, store, cron,
                   workflow, consumer, jobq>>

\* jobs of other executions are enqueued or finish
PubLoad ==
    /\ \E d \in {0, highWaterMark, maxQueueDepth} :
          /\ d # publisher.depth
          /\ publisher' = [publisher EXCEPT !.depth = d]
    /\ UNCHANGED <<engineVars, pool, backpressure, scheduler, dag, store, cron,
                   workflow, consumer, jobq>>

\* publishJob: prisma.stepExecution.create, checkAndSet, and on a new key the
\* backpressure test
PubCall(n) ==
    /\ publisher.call.pc = "idle"
    /\ Len(publisher.steps) < PubMaxSteps
    /\ LET id == Len(publisher.steps) + 1
           existing == publisher.keys[n]
           pub == [publisher EXCEPT
                      !.steps = Append(@, [nodeId |-> n, status |-> "pending"]),
                      !.call = [pc |-> "created", node |-> n, step |-> id,
                                accepting |-> canAccept(publisher.depth),
                                afterRejection |-> publisher.rejected[n] # 0]]
       IN publisher' =
             IF existing.present /\ entryLive(existing.expiresAt, publisher.now)
             THEN [pub EXCEPT !.call.pc = "delete"]
             ELSE LET set == [pub EXCEPT !.keys[n] =
                                 [present |-> TRUE, stepId |-> id,
                                  expiresAt |-> publisher.now + DEFAULT_TTL_MS]]
                  IN IF canAccept(publisher.depth)
                     THEN [set EXCEPT !.call.pc = "enqueue"]
                     ELSE pubReturn([set EXCEPT !.rejected[n] = id], FALSE)
    /\ UNCHANGED <<engineVars, pool, backpressure, scheduler, dag, store, cron,
                   workflow, consumer, jobq>>

\* duplicate: prisma.stepExecution.delete of the row just created, return
PubDuplicate ==
    /\ publisher.call.pc = "delete"
    /\ publisher' = pubReturn([publisher EXCEPT
                                  !.steps[publisher.call.step].status = "deleted"],
                              FALSE)
    /\ UNCHANGED <<engineVars, pool, backpressure, scheduler, dag, store, cron,
                   workflow, consumer, jobq>>

\* jobQueue.enqueue(job), return
PubAccept ==
    /\ publisher.call.pc = "enqueue"
    /\ publisher' = pubReturn([publisher EXCEPT
                                  !.jobs = Append(@, publisher.call.step),
                                  !.depth = @ + 1],
                              TRUE)
    /\ UNCHANGED <<engineVars, pool, backpressure, scheduler, dag, store, cron,
                   workflow, consumer, jobq>>

NextPublisher ==
    \/ PubClock
    \/ PubLoad
    \/ \E n \in PubNodes : PubCall(n)
    \/ PubDuplicate
    \/ PubAccept

SpecPublisher == InitPublisher /\ [][NextPublisher]_vars


\* ================================================================== workflow
\* One Workflow row, the calls of executeWorkflow on its id and the
\* handleResult calls of the executions started.  An execution records the
\* definition executeWorkflow read (definition) and the one the last
\* handleResult read (used); last describes the last call returned.
WorkflowStatus == {"draft", "active", "archived"}
WfDefinitions == {DefLinear(0), DefDiamond(0)}
WfIdle == [pc |-> "idle", status |-> "", definition |-> DefLinear(0)]
WfNoCall == [done |-> FALSE, status |-> "", threw |-> FALSE,
             execution |-> FALSE, step |-> FALSE, job |-> FALSE]

InitWorkflow ==
    /\ definition = DefLinear(0)
    /\ EngineStart
    /\ pool = Off
    /\ backpressure = Off
    /\ scheduler = Off
    /\ dag = Off
    /\ store = Off
    /\ cron = Off
    /\ publisher = Off
    /\ \E present \in BOOLEAN, s \in WorkflowStatus, d \in WfDefinitions :
          workflow = [row |-> [present |-> present, status |-> s, definitionJson |-> d],
                      call |-> WfIdle, calls |-> 0, executions |-> <<>>,
                      steps |-> 0, jobs |-> 0, last |-> WfNoCall]
    /\ consumer = Off
    /\ jobq = Off

\* PUT /api/workflows/[id]: prisma.workflow.update of status or definitionJson
WfPut ==
    /\ workflow.row.present
    /\ \E s \in WorkflowStatus, d \in WfDefinitions :
          /\ <<s, d>> # <<workflow.row.status, workflow.row.definitionJson>>
          /\ workflow' = [workflow EXCEPT !.row.status = s, !.row.definitionJson = d]
    /\ UNCHANGED <<engineVars, pool, backpressure, scheduler, dag, store, cron,
                   publisher, consumer, jobq>>

\* executeWorkflow: prisma.workflow.findUnique, throw if there is no row
WfLoad ==
    /\ workflow.call.pc = "idle"
    /\ workflow.calls < WfMaxCalls
    /\ workflow' =
          IF ~workflow.row.present
          THEN [workflow EXCEPT !.calls = @ + 1,
                                !.last = [WfNoCall EXCEPT !.done = TRUE,
                                                          !.status = "missing",
                                                          !.threw = TRUE]]
          ELSE [workflow EXCEPT !.calls = @ + 1,
                                !.call = [pc |-> "loaded",
                                          status |-> workflow.row.status,
                                          definition |-> workflow.row.definitionJson]]
    /\ UNCHANGED <<engineVars, pool, backpressure, scheduler, dag, store, cron,
                   publisher, consumer, jobq>>

\* executeWorkflow: prisma.execution.create
WfCreateExecution ==
    /\ workflow.call.pc = "loaded"
    /\ workflow' = [workflow EXCEPT
                       !.call.pc = "created",
                       !.executions = Append(@, [definition |-> workflow.call.definition,
                                                 used |-> workflow.call.definition,
                                                 results |-> 0])]
    /\ UNCHANGED <<engineVars, pool, backpressure, scheduler, dag, store, cron,
                   publisher, consumer, jobq>>

\* executeWorkflow: publishJob of the initial node (a step row and its job);
\* the call then waits for the execution and returns its result
WfPublish ==
    /\ workflow.call.pc = "created"
    /\ workflow' = [workflow EXCEPT
                       !.call = WfIdle,
                       !.steps = @ + 1,
                       !.jobs = @ + 1,
                       !.last = [done |-> TRUE, status |-> workflow.call.status,
                                 threw |-> FALSE, execution |-> TRUE,
                                 step |-> TRUE, job |-> TRUE]]
    /\ UNCHANGED <<engineVars, pool, backpressure, scheduler, dag, store, cron,
                   publisher, consumer, jobq>>

\* handleResult of a completed step of execution i: prisma.execution.findUnique
\* with include workflow, definition = execution.workflow.definitionJson
WfHandleResult(i) ==
    /\ i <= Len(workflow.executions)
    /\ workflow.row.present
    /\ workflow.executions[i].results < WfMaxResults
    /\ (i = Len(workflow.executions)) => workflow.call.pc = "idle"
    /\ workflow' = [workflow EXCEPT
                       !.executions[i].used = workflow.row.definitionJson,
                       !.executions[i].results = @ + 1]
    /\ UNCHANGED <<engineVars, pool, backpressure, scheduler, dag, store, cron,
                   publisher, consumer, jobq>>

NextWorkflow ==
    \/ WfPut
    \/ WfLoad
    \/ WfCreateExecution
    \/ WfPublish
    \/ \E i \in 1..WfMaxCalls : WfHandleResult(i)

SpecWorkflow == InitWorkflow /\ [][NextWorkflow]_vars


\* ================================================================== consumer
\* The job consumer's module state (isRunning, isShuttingDown, pollTimer,
\* activeJobs), the listeners of the queue's "job" event, the queue rows of
\* ConsMaxJobs jobs, each job's position in processJob, the retry timers and
\* the heartbeat monitor's map.  dequeuing counts the bodies launched by
\* drainQueue that await jobQueue.dequeue; here one dequeue is one step that
\* returns the oldest pending row, marked processing, or null.  stopped and
\* dispatched are history: stopConsumer has been called and startConsumer not
\* since; a dequeue was launched or a processJob started while stopped;
\* rejected: a processJob call has rejected.
ConsJobs == 1..ConsMaxJobs
consMaxRetries(j) == IF j = 1 THEN 2 ELSE 0

drainQueue(c) ==
    IF c.isShuttingDown \/ ~(c.activeJobs < MAX_CONCURRENCY)
    THEN c
    ELSE [c EXCEPT !.activeJobs = @ + 1, !.dequeuing = @ + 1,
                   !.dispatched = @ \/ c.stopped]

\* jobQueue.emit("job"): every listener registered by startConsumer runs
RECURSIVE emitJob(_, _)
emitJob(c, n) == IF n = 0 THEN c ELSE emitJob(drainQueue(c), n - 1)

\* the finally of drainQueue's async body after processJob: activeJobs--, drainQueue()
consFinally(c, j) ==
    drainQueue([c EXCEPT !.pc[j] = "none", !.activeJobs = @ - 1])

InitConsumer ==
    /\ definition = DefLinear(0)
    /\ EngineStart
    /\ pool = Off
    /\ backpressure = Off
    /\ scheduler = Off
    /\ dag = Off
    /\ store = Off
    /\ cron = Off
    /\ publisher = Off
    /\ workflow = Off
    /\ consumer = [isRunning |-> TRUE, isShuttingDown |-> FALSE, pollTimer |-> TRUE,
                   listeners |-> 1, calls |-> 0, stopPc |-> "idle",
                   activeJobs |-> 1, dequeuing |-> 1,
                   rows |-> [j \in ConsJobs |-> "none"],
                   pc |-> [j \in ConsJobs |-> "none"],
                   timer |-> [j \in ConsJobs |-> FALSE],
                   heartbeat |-> {}, stopped |-> FALSE, dispatched |-> FALSE,
                   rejected |-> FALSE]
    /\ jobq = Off

\* startConsumer()
ConsStart ==
    /\ consumer.calls < ConsMaxCalls
    /\ LET c == [consumer EXCEPT !.calls = @ + 1, !.stopped = FALSE]
       IN consumer' =
             IF consumer.isRunning
             THEN c
             ELSE drainQueue([c EXCEPT !.isRunning = TRUE, !.listeners = @ + 1,
                                       !.pollTimer = TRUE])
    /\ UNCHANGED <<engineVars, pool, backpressure, scheduler, dag, store, cron,
                   publisher, workflow, jobq>>

\* stopConsumer(), up to its first wait: isShuttingDown, clearInterval
ConsStop ==
    /\ consumer.calls < ConsMaxCalls
    /\ consumer.stopPc = "idle"
    /\ LET c == [consumer EXCEPT !.calls = @ + 1]
       IN consumer' =
             IF ~consumer.isRunning
             THEN c
             ELSE IF consumer.activeJobs > 0
             THEN [c EXCEPT !.stopped = TRUE, !.isShuttingDown = TRUE,
                            !.pollTimer = FALSE, !.stopPc = "waiting"]
             ELSE [c EXCEPT !.stopped = TRUE, !.isRunning = FALSE,
                            !.isShuttingDown = FALSE, !.pollTimer = FALSE]
    /\ UNCHANGED <<engineVars, pool, backpressure, scheduler, dag, store, cron,
                   publisher, workflow, jobq>>

\* stopConsumer's wait loop ends: no active job is left, or maxWait has passed
ConsStopReturn ==
    /\ consumer.stopPc = "waiting"
    /\ \E elapsed \in BOOLEAN :
          /\ consumer.activeJobs = 0 \/ elapsed
          /\ consumer' = [consumer EXCEPT !.stopPc = "idle", !.isRunning = FALSE,
                                          !.isShuttingDown = FALSE]
    /\ UNCHANGED <<engineVars, pool, backpressure, scheduler, dag, store, cron,
                   publisher, workflow, jobq>>

\* the poll timer's callback
ConsPoll ==
    /\ consumer.pollTimer
    /\ drainQueue(consumer) # consumer
    /\ consumer' = drainQueue(consumer)
    /\ UNCHANGED <<engineVars, pool, backpressure, scheduler, dag, store, cron,
                   publisher, workflow, jobq>>

\* jobQueue.enqueue of a new job by a publisher: the row, then emit("job")
ConsEnqueue(j) ==
    /\ consumer.rows[j] = "none"
    /\ consumer' = emitJob([consumer EXCEPT !.rows[j] = "pending"], consumer.listeners)
    /\ UNCHANGED <<engineVars, pool, backpressure, scheduler, dag, store, cron,
                   publisher, workflow, jobq>>

\* await jobQueue.dequeue returns: null (activeJobs--), or a job, and processJob
\* starts: workerHeartbeat.registerJob
ConsDequeue ==
    /\ consumer.dequeuing > 0
    /\ LET pending == {j \in ConsJobs : consumer.rows[j] = "pending"}
           c == [consumer EXCEPT !.dequeuing = @ - 1]
       IN consumer' =
             IF pending = {}
             THEN [c EXCEPT !.activeJobs = @ - 1]
             ELSE LET j == CHOOSE x \in pending : \A y \in pending : x <= y
                  IN [c EXCEPT !.rows[j] = "processing", !.pc[j] = "markRunning",
                               !.heartbeat = @ \cup {j},
                               !.dispatched = @ \/ consumer.stopped]
    /\ UNCHANGED <<engineVars, pool, backpressure, scheduler, dag, store, cron,
                   publisher, workflow, jobq>>

\* processJob: prisma.stepExecution.update to running succeeds or throws
ConsMarkRunning(j) ==
    /\ consumer.pc[j] = "markRunning"
    /\ \E thrown \in BOOLEAN :
          consumer' = [consumer EXCEPT !.pc[j] = IF thrown THEN "abort" ELSE "execute"]
    /\ UNCHANGED <<engineVars, pool, backpressure, scheduler, dag, store, cron,
                   publisher, workflow, jobq>>

\* processJob's catch: markFailed, deregisterJob, return
ConsAbort(j) ==
    /\ consumer.pc[j] = "abort"
    /\ consumer' = consFinally([consumer EXCEPT !.rows[j] = "failed",
                                                !.heartbeat = @ \ {j}], j)
    /\ UNCHANGED <<engineVars, pool, backpressure, scheduler, dag, store, cron,
                   publisher, workflow, jobq>>

\* processJob: handler.execute, markDone or markFailed, and the retry test
ConsExecute(j) ==
    /\ consumer.pc[j] = "execute"
    /\ \E status \in {"completed", "failed"}, retryable \in BOOLEAN :
          /\ status = "completed" => ~retryable
          /\ consumer' =
                [consumer EXCEPT
                    !.rows[j] = IF status = "completed" THEN "done" ELSE "failed",
                    !.pc[j] = IF status = "failed" /\ retryable /\ 1 < consMaxRetries(j)
                              THEN "retryUpdate" ELSE "handleResult"]
    /\ UNCHANGED <<engineVars, pool, backpressure, scheduler, dag, store, cron,
                   publisher, workflow, jobq>>

\* the catch of drainQueue's async body, entered after the finally when
\* processJob rejected: activeJobs--
consCatch(c) == [c EXCEPT !.activeJobs = @ - 1, !.rejected = TRUE]

\* processJob's retry branch: the step update, setTimeout, return; or the step
\* update rejects and processJob rejects with it (no timer, no deregisterJob)
ConsRetryUpdate(j) ==
    /\ consumer.pc[j] = "retryUpdate"
    /\ \E thrown \in BOOLEAN :
          consumer' = IF thrown
                      THEN consCatch(consFinally(consumer, j))
                      ELSE consFinally([consumer EXCEPT !.timer[j] = TRUE], j)
    /\ UNCHANGED <<engineVars, pool, backpressure, scheduler, dag, store, cron,
                   publisher, workflow, jobq>>

\* the retry timer: jobQueue.enqueue(retryJob) with the id of the existing
\* row, so the insert fails and the catch emits "job"
ConsRetryFire(j) ==
    /\ consumer.timer[j]
    /\ consumer' = emitJob([consumer EXCEPT !.timer[j] = FALSE], consumer.listeners)
    /\ UNCHANGED <<engineVars, pool, backpressure, scheduler, dag, store, cron,
                   publisher, workflow, jobq>>

\* processJob: handleResult returns or throws, finally deregisterJob
ConsHandleResult(j) ==
    /\ consumer.pc[j] = "handleResult"
    /\ consumer' = consFinally([consumer EXCEPT !.heartbeat = @ \ {j}], j)
    /\ UNCHANGED <<engineVars, pool, backpressure, scheduler, dag, store, cron,
                   publisher, workflow, jobq>>

NextConsumer ==
    \/ ConsStart
    \/ ConsStop
    \/ ConsStopReturn
    \/ ConsPoll
    \/ ConsDequeue
    \/ \E j \in ConsJobs :
          \/ ConsEnqueue(j)
          \/ ConsMarkRunning(j)
          \/ ConsAbort(j)
          \/ ConsExecute(j)
          \/ ConsRetryUpdate(j)
          \/ ConsRetryFire(j)
          \/ ConsHandleResult(j)

SpecConsumer == InitConsumer /\ [][NextConsumer]_vars


\* ===================================================================== queue
\* The JobQueue table and the JobQueue object's counters.  rows are in the
\* order of insertion, which is the order of createdAt; deq is the position of
\* each concurrent dequeue call and the job its caller then holds.  consumed,
\* overlapped and last are history: the ids returned by dequeue in order,
\* whether two dequeue calls ever overlapped, and the last dequeue returned
\* (id 0 is null; oldestPending tells whether the row returned was, when it was
\* taken, the pending row with the oldest createdAt).
QDequeuers == 1..QMaxDequeuers
QIdle == [pc |-> "idle", id |-> 0]
QNoDequeue == [done |-> FALSE, id |-> 0, oldestPending |-> FALSE]

rowIndex(rows, id) == CHOOSE k \in 1..Len(rows) : rows[k].id = id
pendingRows(rows) == {k \in 1..Len(rows) : rows[k].status = "pending"}

\* get depth(): the counter the backpressure controller reads
queueDepth(q) ==
    LET d == q.totalEnqueued - q.totalProcessed - q.totalFailed
    IN IF d > 0 THEN d ELSE 0

InitQueue ==
    /\ definition = DefLinear(0)
    /\ EngineStart
    /\ pool = Off
    /\ backpressure = Off
    /\ scheduler = Off
    /\ dag = Off
    /\ store = Off
    /\ cron = Off
    /\ publisher = Off
    /\ workflow = Off
    /\ consumer = Off
    /\ jobq = [rows |-> <<>>, totalEnqueued |-> 0, totalProcessed |-> 0,
               totalFailed |-> 0, deq |-> [d \in QDequeuers |-> QIdle],
               consumed |-> <<>>, overlapped |-> FALSE, last |-> QNoDequeue]

\* enqueue(job): the insert, which fails when a row with the job's id exists
\* (the retry of a failed job); the counter is incremented in both cases
QEnqueue(id) ==
    /\ jobq.totalEnqueued < QMaxEnqueues
    /\ LET present == \E k \in 1..Len(jobq.rows) : jobq.rows[k].id = id
       IN /\ present => jobq.rows[rowIndex(jobq.rows, id)].status = "failed"
          /\ jobq' = [jobq EXCEPT
                         !.totalEnqueued = @ + 1,
                         !.rows = IF present THEN @
                                  ELSE Append(@, [id |-> id, status |-> "pending"])]
    /\ UNCHANGED <<engineVars, pool, backpressure, scheduler, dag, store, cron,
                   publisher, workflow, consumer>>

\* dequeue, first statement: SELECT the oldest pending row; null if there is none
QSelect(d) ==
    /\ jobq.deq[d].pc = "idle"
    /\ LET pending == pendingRows(jobq.rows)
       IN jobq' =
             IF pending = {}
             THEN [jobq EXCEPT !.last = [QNoDequeue EXCEPT !.done = TRUE]]
             ELSE [jobq EXCEPT
                      !.deq[d] = [pc |-> "selected", id |-> jobq.rows[Min(pending)].id],
                      !.overlapped = @ \/ \E o \in QDequeuers : jobq.deq[o].pc = "selected"]
    /\ UNCHANGED <<engineVars, pool, backpressure, scheduler, dag, store, cron,
                   publisher, workflow, consumer>>

\* dequeue, second statement: UPDATE the row by id to processing, return its payload
QUpdate(d) ==
    /\ jobq.deq[d].pc = "selected"
    /\ LET k == rowIndex(jobq.rows, jobq.deq[d].id)
           pending == pendingRows(jobq.rows)
       IN jobq' = [jobq EXCEPT
                      !.rows[k].status = "processing",
                      !.deq[d].pc = "holding",
                      !.consumed = Append(@, jobq.deq[d].id),
                      !.last = [done |-> TRUE, id |-> jobq.deq[d].id,
                                oldestPending |-> pending # {} /\ k = Min(pending)]]
    /\ UNCHANGED <<engineVars, pool, backpressure, scheduler, dag, store, cron,
                   publisher, workflow, consumer>>

\* markDone(jobId) or markFailed(jobId) by the caller that holds the job
QMark(d, status) ==
    /\ jobq.deq[d].pc = "holding"
    /\ jobq' = [jobq EXCEPT
                   !.totalProcessed = IF status = "done" THEN @ + 1 ELSE @,
                   !.totalFailed = IF status = "failed" THEN @ + 1 ELSE @,
                   !.rows[rowIndex(jobq.rows, jobq.deq[d].id)].status = status,
                   !.deq[d] = QIdle]
    /\ UNCHANGED <<engineVars, pool, backpressure, scheduler, dag, store, cron,
                   publisher, workflow, consumer>>

NextQueue ==
    \/ \E id \in 1..QMaxJobs : QEnqueue(id)
    \/ \E d \in QDequeuers :
          \/ QSelect(d)
          \/ QUpdate(d)
          \/ \E status \in {"done", "failed"} : QMark(d, status)

SpecQueue == InitQueue /\ [][NextQueue]_vars


\* ==================================================================== claims
Terminal == {"completed", "failed", "cancelled"}
InHandleResult(t) ==
    proc[t].pc \in {"hrUpdate", "hrFailExec", "hrSweep", "hrLoad", "hrSkip",
                    "hrRequery", "pubCreate", "pubDelete", "pubEnqueue",
                    "hrComplete"}
ActiveRows(n) ==
    {i \in RowsOf(n) : steps[i].status \in {"pending", "running", "completed"}}
TerminalRows(n) ==
    {i \in RowsOf(n) : steps[i].status \in {"completed", "skipped"}}
DlqCount(id) == Cardinality({k \in 1..Len(dlq) : dlq[k].stepId = id})

\* C1: every JobQueue row is handed to at most one dequeue caller: its
\* payload is returned (and its attempts column incremented) at most once.
C1_AtMostOneCaller ==
    \A i \in 1..Len(jobQueue) : jobQueue[i].attempts <= 1

\* C2: once the execution's status is completed, failed or cancelled, no
\* step of the system changes it.
C2_TerminalSticks ==
    [][(execStatus \in Terminal) => (execStatus' = execStatus)]_vars

\* C3: a handleResult call that was entered while the execution was not
\* running creates no step row, enqueues no job and emits no done signal.
C3_NoAdvanceWhenNotRunning ==
    [][\A t \in Tasks :
          (InHandleResult(t) /\ proc[t].entry # "running" /\ proc'[t] # proc[t])
             => /\ Len(steps') = Len(steps)
                /\ Len(jobQueue') = Len(jobQueue)
                /\ doneEmitted' = doneEmitted]_vars

\* C4: done:<executionId> is emitted at most once over the execution's life.
C4_DoneAtMostOnce == doneEmitted <= 1

\* C5: for every node at most one step row is pending, running or completed.
C5_AtMostOneActiveRow ==
    \A n \in Nodes : Cardinality(ActiveRows(n)) <= 1

\* C6: a node with maxRetries = n has its handler executed at most n+1 times.
C6_AttemptsBounded ==
    \A n \in Nodes : handlerRuns[n] <= getMaxRetries(n) + 1

\* C7: when a node with maxRetries = n >= 1 whose handler failed retryably on
\* every run is terminally failed and the execution is failed, the handler
\* has run exactly n+1 times.
C7_ExactlyNPlusOneAttempts ==
    \A n \in Nodes :
        ( /\ getMaxRetries(n) >= 1
          /\ handlerRuns[n] > 0
          /\ handlerFails[n] = handlerRuns[n]
          /\ \E i \in RowsOf(n) : steps[i].status = "failed"
          /\ execStatus = "failed" )
        => handlerRuns[n] = getMaxRetries(n) + 1

\* C8: a step has at most one dead-letter entry, and none when its node has
\* maxRetries = 0, when a retry of it is scheduled, or when it has succeeded.
C8_OneDlqEntry ==
    \A id \in 1..Len(steps) :
        /\ DlqCount(id) <= 1
        /\ getMaxRetries(steps[id].nodeId) = 0 => DlqCount(id) = 0
        /\ steps[id].status = "completed" => DlqCount(id) = 0
        /\ (\E k \in 1..Len(timers) : timers[k].id = id) => DlqCount(id) = 0

\* C9: when the backoff timer of a retry fires, the retry job (attempt a+1)
\* is stored in the queue as a pending row.
C9_RetryStoredPending ==
    [][\A i \in 1..Len(timers) :
          RetryFire(i) =>
             \E k \in 1..Len(jobQueue') :
                /\ jobQueue'[k].id = timers[i].id
                /\ jobQueue'[k].status = "pending"
                /\ jobQueue'[k].payload.attempt = timers[i].attempt]_vars

\* C10: while the execution is completed, every node has a completed or
\* skipped step row, and so has the target of every edge whose source is
\* completed.
C10_CompletedMeansAllTerminal ==
    execStatus = "completed" =>
        /\ \A n \in Nodes : TerminalRows(n) # {}
        /\ \A e \in Edges :
              (\E i \in RowsOf(e.source) : steps[i].status = "completed")
                 => TerminalRows(e.target) # {}

\* C11: every JobQueue row moves pending -> processing -> (done | failed):
\* a new row is pending, and a step of the system changes a row's status only
\* from pending to processing or from processing to done or failed.
C11_QueueStatusMonotonic ==
    [][/\ Len(jobQueue') >= Len(jobQueue)
       /\ \A i \in 1..Len(jobQueue') :
             IF i > Len(jobQueue)
             THEN jobQueue'[i].status = "pending"
             ELSE \/ jobQueue'[i].status = jobQueue[i].status
                  \/ /\ jobQueue[i].status = "pending"
                     /\ jobQueue'[i].status = "processing"
                  \/ /\ jobQueue[i].status = "processing"
                     /\ jobQueue'[i].status \in {"done", "failed"}]_vars


\* C20: the result handler creates a pending step for a node only in a state
\* where the source of every incoming edge of the node has a completed or
\* skipped step.
C20_ReadyRuleAtPublish ==
    [][\A t \in Tasks :
          PubCreate(t) =>
             \A e \in Range(IncomingEdges(Head(proc[t].ready))) :
                e.source \in NodesIn({"completed", "skipped"})]_vars

C13_Hysteresis == backpressure.armed => backpressure.state # "accepting"

\* after pressured, a call at a depth between the two marks left it pressured
C13_Witness ==
    /\ backpressure.armed
    /\ backpressure.last = "mid"
    /\ backpressure.state = "pressured"

C15_TicksDoNotOverlap ==
    Cardinality({k \in Ticks : scheduler.tick[k].pc # "idle"}) <= 1

\* a tick call returned at the mutex while a tick body awaits the database
C15_Witness ==
    /\ scheduler.refused
    /\ \E k \in Ticks : scheduler.tick[k].pc \in {"find", "execute"}

\* C16: a definition that validateDAG accepts has a topological order (no
\* cycle) and every node of it is reachable from its single start node.
C16_ValidIsConnectedDag ==
    (dag.validated /\ dag.result.valid) =>
        /\ Cardinality(DagStarts(dag.def)) = 1
        /\ DagTopologicalOrder(dag.def)
        /\ DagAllReachable(dag.def)

\* an accepted definition with a fork of two edges to the same end node
C16_Witness ==
    /\ dag.validated
    /\ dag.result.valid
    /\ Len(dag.def.nodes) = 3
    /\ Len(dag.def.edges) = 3

\* C17: validateDAG answers valid exactly for the definitions with one
\* start, an end, unique node and edge IDs, defined edge endpoints, no
\* cycle, every node reachable from the start, forks with two or more
\* outgoing and joins with two or more incoming edges; and valid is false
\* exactly when errors is not empty.
C17_ValidIffWellFormed ==
    dag.validated =>
        /\ dag.result.valid <=> DagWellFormed(dag.def)
        /\ dag.result.valid <=> dag.result.errors = {}

\* a definition refused only for a fork with a single outgoing edge
C17_Witness ==
    /\ dag.validated
    /\ ~dag.result.valid
    /\ dag.result.errors = {"fork"}

\* C18: checkAndSet on a key absent from the store, or removed since it was
\* last stored, answers duplicate:false and stores the new step ID; a
\* checkAndSet on a key stored less than its ttl ago and not removed since
\* answers duplicate:true with the stored step ID and leaves the entry as it
\* was.
C18_IdempotencyLaw ==
    LET call == store.last
        entry == store.entries[call.key]
        before == call.before
    IN call.op = "checkAndSet" =>
          /\ (call.absent \/ ~before.present) =>
                /\ ~call.duplicate
                /\ entry = [present |-> TRUE, stepId |-> call.stepId,
                            expiresAt |-> store.written[call.key].at
                                          + store.written[call.key].ttl]
                /\ store.written[call.key].at = call.now
          /\ (before.present /\ call.now - before.at < before.ttl) =>
                /\ call.duplicate
                /\ call.existingStepId = before.stepId
                /\ entry = [present |-> TRUE, stepId |-> before.stepId,
                            expiresAt |-> before.at + before.ttl]

\* a second checkAndSet with another step ID, later but within the ttl
C18_Witness ==
    /\ store.last.op = "checkAndSet"
    /\ store.last.duplicate
    /\ store.last.existingStepId # store.last.stepId
    /\ store.last.now > store.last.before.at

\* C19: a time u that getNextRunTime(e, t) returns satisfies shouldRun(e, u)
\* and is strictly later than t.
C19_NextRunMatchesAndIsLater ==
    cron.pc = "done" =>
        /\ cron.ran
        /\ cron.next.at * 60 > cron.from.minute * 60 + cron.from.seconds

\* the first half of C19 alone: shouldRun holds at the returned time
C19_NextRunMatches == cron.pc = "done" => cron.ran

\* the second half of C19 in a zone without a transition
C19_LaterInFixedZone ==
    (cron.pc = "done" /\ cron.zone = "fixed") =>
        cron.next.at * 60 > cron.from.minute * 60 + cron.from.seconds

\* C21: of the labelled out-edges of a condition node, the target of a branch
\* that the result does not select only ever gets skipped steps and its
\* handler is never executed; once the condition's step is completed and its
\* handleResult has returned, that target has a skipped step and the target of
\* the selected branch has a step and a queue job.
C21_BranchSelection ==
    \A n \in Nodes : definition.type[n] = "condition" =>
        \A e \in Range(OutgoingEdges(n)) : e.conditionBranch # "none" =>
            LET selected ==
                    e.conditionBranch = (IF definition.expression THEN "true" ELSE "false")
                handled ==
                    /\ \E i \in RowsOf(n) : steps[i].status = "completed"
                    /\ \A t \in Tasks : ~(InHandleResult(t) /\ proc[t].job.nodeId = n)
            IN IF selected
               THEN handled =>
                       /\ RowsOf(e.target) # {}
                       /\ \E k \in 1..Len(jobQueue) : jobQueue[k].payload.nodeId = e.target
               ELSE /\ handlerRuns[e.target] = 0
                    /\ \A i \in RowsOf(e.target) : steps[i].status = "skipped"
                    /\ handled => RowsOf(e.target) # {}

\* C22: a step left without a job by a rejected publishJob stays pending, and
\* a later publishJob for the same node, made while backpressure accepts,
\* enqueues a job for the node.
C22_RejectedStepRepublished ==
    /\ \A n \in PubNodes :
          publisher.rejected[n] # 0 =>
             publisher.steps[publisher.rejected[n]].status = "pending"
    /\ (publisher.last.done /\ publisher.last.afterRejection /\ publisher.last.accepting)
          => publisher.last.enqueued

\* C23: a call of executeWorkflow on a workflow that is missing or whose status
\* is not active fails with an error and creates no Execution row, no
\* StepExecution row and no queue job.
C23_InactiveWorkflowRefused ==
    (workflow.last.done /\ workflow.last.status # "active") =>
        /\ workflow.last.threw
        /\ ~workflow.last.execution
        /\ ~workflow.last.step
        /\ ~workflow.last.job

\* C25: every handleResult of an execution uses the definition the execution
\* was started with, also when the workflow's definition was updated since.
C25_DefinitionPinned ==
    \A i \in 1..Len(workflow.executions) :
        workflow.executions[i].used = workflow.executions[i].definition

C26_NoDispatchAfterStop == ~consumer.dispatched

\* C27: a job registered with the heartbeat monitor is deregistered when its
\* processJob has finished, on every path.
C27_HeartbeatDeregistered ==
    \A j \in ConsJobs : j \in consumer.heartbeat => consumer.pc[j] # "none"

\* C28: every dequeue that returns a job returns the pending row with the
\* oldest createdAt, and returns null only when no row is pending; the jobs
\* are consumed in the order of their enqueue.
C28_Fifo ==
    /\ (jobq.last.done /\ jobq.last.id # 0) => jobq.last.oldestPending
    /\ \A k \in 1..Len(jobq.consumed) : jobq.consumed[k] = jobq.rows[k].id

\* C28 for dequeue calls that never overlap (a single sequential dequeuer)
C28_FifoSequential == jobq.overlapped \/ C28_Fifo

\* C29: the depth that canAccept evaluates equals the number of pending rows
\* of the queue table.
C29_DepthIsPendingCount ==
    queueDepth(jobq) = Cardinality(pendingRows(jobq.rows))

\* C30: when the step row of a job was skipped (by the cancellation or by the
\* failure sweep) before the job was dequeued, and is skipped when the consumer
\* comes to mark it running, the consumer marks the queue row failed and
\* aborts: the step stays skipped and the job does not reach its handler.
C30_SkippedStepNotRun ==
    [][\A t \in Tasks :
          (/\ proc[t].pc = "markRunning"
           /\ proc'[t].pc # "markRunning"
           /\ proc[t].seen = "skipped"
           /\ steps[proc[t].job.id].status = "skipped")
          => /\ steps'[proc[t].job.id].status = "skipped"
             /\ proc'[t].pc # "execute"
             /\ \E k \in 1..Len(jobQueue') :
                   /\ jobQueue'[k].id = proc[t].job.id
                   /\ jobQueue'[k].status = "failed"]_vars

\* C31: the status of a step row changes only along pending -> running,
\* running -> completed, running -> failed, running -> pending, pending ->
\* skipped and running -> skipped; a completed, failed or skipped row never
\* changes status again (the deletion of a row is not a change of status).
C31_StepTransitions ==
    [][\A i \in 1..Len(steps) :
          (steps'[i].status # steps[i].status /\ steps'[i].status # "deleted") =>
             <<steps[i].status, steps'[i].status>> \in
                {<<"pending", "running">>, <<"running", "completed">>,
                 <<"running", "failed">>, <<"running", "pending">>,
                 <<"pending", "skipped">>, <<"running", "skipped">>}]_vars

\* C32: when the backoff timer of a retry fires and the retry job is
\* enqueued, the idempotency key that the original publish set for the node
\* (the key holding the job's step id) is no longer present.
C32_KeyRemovedBeforeRetryEnqueue ==
    [][\A i \in 1..Len(timers) :
          RetryFire(i) => idempotency[timers[i].nodeId] # timers[i].id]_vars

\* a retry was scheduled and its timer has fired: the step is pending again,
\* its queue row is the failed one, the node's key is absent
C32_Witness ==
    /\ timers = <<>>
    /\ \E n \in Nodes :
          /\ handlerFails[n] > 0
          /\ idempotency[n] = 0
          /\ \E i \in RowsOf(n) :
                /\ steps[i].status = "pending"
                /\ \E k \in 1..Len(jobQueue) :
                      jobQueue[k].id = i /\ jobQueue[k].status = "failed"

\* C33: a failed result for which a retry is due (retryable, attempt below
\* maxRetries) never enters handleResult, and the step of processJob that
\* schedules the retry leaves the execution's status, the done signals and
\* every other step row as they are.
C33_RetryNotForwarded ==
    [][\A t \in Tasks :
          /\ (InHandleResult(t))' =>
                ~(/\ proc'[t].res.status = "failed"
                  /\ proc'[t].res.retryable
                  /\ proc'[t].job.attempt < proc'[t].job.maxRetries)
          /\ (proc[t].pc = "retry" /\ proc'[t].pc # "retry") =>
                /\ execStatus' = execStatus
                /\ doneEmitted' = doneEmitted
                /\ \A i \in 1..Len(steps) :
                      i # proc[t].job.id => steps'[i] = steps[i]]_vars

\* a retry is scheduled and waits for its timer while the execution is still
\* running and no done signal has been emitted
C33_Witness ==
    /\ timers # <<>>
    /\ execStatus = "running"
    /\ doneEmitted = 0
    /\ steps[timers[1].id].status = "pending"
    /\ handlerFails[timers[1].nodeId] > 0

\* C34: every firing of a trigger by a tick is of a row that the tick read
\* with type cron, enabled, an active workflow and an expression, and for
\* which shouldRun was true at the minute at which the tick evaluated it.
C34_OnlyEligibleTriggersFire ==
    \A i \in 1..Len(scheduler.firedInfo) :
        LET f == scheduler.firedInfo[i]
        IN /\ f.row.type = "cron"
           /\ f.row.enabled
           /\ f.row.status = "active"
           /\ f.row.expression
           /\ f.due # NeverFired
           /\ shouldRunAt(f.trigger, f.due)

\* some trigger has been fired while another one, disabled, a webhook, without
\* expression or of a non-active workflow, has been passed over by a tick
C34_Witness ==
    /\ scheduler.firedInfo # <<>>
    /\ \E tr \in Range(Triggers) :
          /\ ~tickEligible(scheduler.rows[tr])
          /\ \A i \in 1..Len(scheduler.firedInfo) : scheduler.firedInfo[i].trigger # tr
    /\ \A k \in Ticks : scheduler.tick[k].pc = "idle"

\* C40: a tick that has taken _isProcessing clears it in the end, also when
\* findMany or the update of a trigger throws.
C40_MutexReleased ==
    scheduler.isProcessing ~> ~scheduler.isProcessing

\* a trigger was fired after findMany or a trigger update had thrown in a
\* tick, and the mutex is free again
C40_Witness ==
    /\ ~scheduler.isProcessing
    /\ \E i \in 1..Len(scheduler.firedInfo) : scheduler.firedInfo[i].afterThrow

\* C39: after a canAccept call the recorded state is rejecting if and only
\* if that call returned false.
C39_StateAgreesWithDecision ==
    backpressure.last # "none" =>
        (backpressure.state = "rejecting" <=> ~backpressure.accepted)

\* C36: once a node has a failed step row, no step creates a new step row
\* for that node and none enqueues a new job for it.
C36_FailedNodeNotReady ==
    [][\A n \in Nodes :
          (\E i \in RowsOf(n) : steps[i].status = "failed") =>
             /\ \A i \in (Len(steps) + 1)..Len(steps') : steps'[i].nodeId # n
             /\ \A k \in (Len(jobQueue) + 1)..Len(jobQueue') :
                   jobQueue'[k].payload.nodeId # n]_vars

\* C37: on a condition workflow whose two branches converge on the end node,
\* the end node is never given a skipped row by branch skipping, and the
\* execution is marked completed only after the end node's step completed.
C37_ConvergingNodeExecuted ==
    [][(definition \in {DefCondition(TRUE), DefCondition(FALSE)}) =>
         ((\A i \in (Len(steps) + 1)..Len(steps') :
              ~(steps'[i].nodeId = "end" /\ steps'[i].status = "skipped"))
          /\ ((execStatus' = "completed") =>
                (\E i \in 1..Len(steps') :
                    steps'[i].nodeId = "end" /\ steps'[i].status = "completed")))]_vars

\* C38: the consumer's activeJobs counter equals the number of dequeue calls
\* and processJob calls in flight, and stays within 0..MAX_CONCURRENCY.
C38_ActiveJobsCountsTasks ==
    /\ consumer.activeJobs =
          consumer.dequeuing + Cardinality({j \in ConsJobs : consumer.pc[j] # "none"})
    /\ consumer.activeJobs \in 0..MAX_CONCURRENCY

\* the same statement while no processJob call has rejected
C38_ActiveJobsWithoutRejection ==
    ~consumer.rejected =>
       /\ consumer.activeJobs =
             consumer.dequeuing + Cardinality({j \in ConsJobs : consumer.pc[j] # "none"})
       /\ consumer.activeJobs \in 0..MAX_CONCURRENCY

\* C35: without cancellation and under fair scheduling, every execution that
\* was started eventually is completed or failed.
C35_ExecutionTerminates ==
    (execStatus = "running") ~> (execStatus \in {"completed", "failed"})

====
